---- MODULE Spec2Model ----
(***************************************************************************)
(* Model of the code-modification pipeline of Code-Expert:                 *)
(*   code_modifier/main.py            modifier_orchestrator_main           *)
(*   code_modifier/core/execution_loop.py                                  *)
(*                                    execute_single_agent_step,           *)
(*                                    run_execution_loop                   *)
(*   code_modifier/core/workflow_steps.py                                  *)
(*                                    prepare_execution_workspace,         *)
(*                                    generate_apply_plan_and_diff_report, *)
(*                                    finalize_execution                   *)
(*   lib/utils.py                     backup_files, run_build_command      *)
(* The pipeline is one sequential control flow; every action below is one  *)
(* stage, one loop iteration step or one file operation of that flow.  The *)
(* outcomes of the external collaborators (agents, the build command, the  *)
(* file system) are inputs drawn with \E.                                  *)
(***************************************************************************)
EXTENDS Integers, Sequences, FiniteSets, TLC

\* ---------------------------------------------------------------- bounds
\* MAX_BUILD_RETRIES is read from the environment: every value 0..MaxRetries.
MaxRetries == 3
\* The planner returns 0..MaxPlanLen steps.
MaxPlanLen == 2
\* An agent returns at most MaxFrags entries in "modified_fragments".
MaxFrags == 2
\* The manifest lists, and the prior embedding store holds, at most
\* MaxFragments fragments.
MaxFragments == 2
\* CONCURRENT_EMBEDDING_TASKS is read from the configuration: 1..MaxConc.
MaxConc == 2
\* The embedding update is run at most MaxRuns times in a row.
MaxRuns == 2
\* A plan step lists at most MaxStepIds target fragment ids.
MaxStepIds == 2

\* ------------------------------------------------------------ value sets
\* Relative paths of the project, in the order sorted() gives them.
PathOrder == <<"pkg/x.go", "views/v.templ">>
Paths == {PathOrder[i] : i \in DOMAIN PathOrder}

\* Python's None, for the Optional[str] error values.
None == <<"none", 0>>
\* No file / no Path object.
NoFile == <<"nofile">>

\* Plan files whose JSON object has no usable "files_to_apply": the key is
\* absent (plan_data.get gives None), or its value is not a list.
NoPathList == <<"corrupt", "files_to_apply absent">>
PathListNotAList == <<"corrupt", "files_to_apply is not a list">>
CorruptPlans == {NoPathList, PathListNotAList}

\* Python truthiness of an Optional[str] (the code never produces "").
Truthy(e) == e # None

\* --stop-after choices of the CLI; "none" is a run to the end.
StopAfterChoices == {"none", "optimization", "planning", "workspace_prep", "execution"}

\* sorted(list(s)) for a set of paths.
Sorted(s) == SelectSeq(PathOrder, LAMBDA p : p \in s)

\* ------------------------------------------------- lib/utils.py: commands
\* run_build_command: (True, stdout) on exit code 0; otherwise (False, out)
\* where out is never empty: the return-code report, or the timeout report.
BuildOutcomes ==
    { [ok |-> TRUE,  out |-> <<"stdout", 0>>],
      [ok |-> FALSE, out |-> <<"build_rc", 1>>],
      [ok |-> FALSE, out |-> <<"build_timeout", 0>>] }

\* ------------------------------------- execution_loop.py: the step executor
\* One entry of the agent's "modified_fragments" list.
\*   nondict : the entry is not a dict                        (line 115)
\*   invalid : path missing / not a str, or new_content None  (line 123)
\*   write   : a valid mutation; write_ok is whether mkdir + write_text
\*             succeeded                                      (line 142)
FragEntries ==
    { [kind |-> "nondict", path |-> PathOrder[1], is_templ |-> FALSE, write_ok |-> FALSE],
      [kind |-> "invalid", path |-> PathOrder[1], is_templ |-> FALSE, write_ok |-> FALSE] }
    \cup [kind : {"write"}, path : Paths, is_templ : BOOLEAN, write_ok : BOOLEAN]

\* Sequences of at most n entries.
RECURSIVE SeqsUpTo(_, _)
SeqsUpTo(S, n) ==
    IF n = 0 THEN {<<>>}
    ELSE LET shorter == SeqsUpTo(S, n - 1)
         IN  shorter \cup {Append(s, e) : s \in {t \in shorter : Len(t) = n - 1}, e \in S}

\* What the collaborators of one step do: how far the step gets, the files
\* the context builder reports as targeted, the agent's list, and the result
\* of 'templ generate'.
\*   agent_unavailable : agent name missing, class not loadable, or the
\*                       constructor raises             (lines 52-66)
\*   ctx_fail          : assemble_expert_context returns None (line 81)
\*   agent_error       : run() raises or returns a non-dict (lines 89-94)
\*   agent_fail        : status != "success"           (line 176)
\*   nonlist           : status success, modified_fragments not a list
\*   success           : status success, modified_fragments = frags
StepKinds == {"agent_unavailable", "ctx_fail", "agent_error", "agent_fail", "nonlist", "success"}

StepScenarios ==
    [kind : StepKinds \ {"success"}, targeted : SUBSET Paths, frags : {<<>>}, templ_ok : {TRUE}]
    \cup [kind : {"success"}, targeted : {{}}, frags : SeqsUpTo(FragEntries, MaxFrags),
          templ_ok : BOOLEAN]

\* The for loop over modified_fragments (lines 110-151), from entry i on.
\* acc = [ok, applied, templ]: modifications_applied_successfully_to_workspace,
\* applied_files_in_workspace_relative_paths, any_templ_file_modified_in_this_step.
RECURSIVE ApplyFragments(_, _, _)
ApplyFragments(frags, i, acc) ==
    IF i > Len(frags) THEN acc
    ELSE LET e == frags[i] IN
         CASE e.kind = "nondict" -> [acc EXCEPT !.ok = FALSE]                 \* break
           [] e.kind = "invalid" -> ApplyFragments(frags, i + 1, acc)         \* continue
           [] OTHER ->
                IF e.write_ok
                THEN ApplyFragments(frags, i + 1,
                        [acc EXCEPT !.applied = @ \cup {e.path},
                                    !.templ = @ \/ e.is_templ])
                ELSE [acc EXCEPT !.ok = FALSE]                                \* break

\* The set returned when the application of the mutations failed (line 155).
FilesOnWriteFailure(applied) == {}

\* execute_single_agent_step: (success, returned path set), plus the set of
\* paths the step really wrote into the workspace (write_text succeeded).
execute_single_agent_step(scn) ==
    CASE scn.kind = "agent_unavailable" ->
            [ok |-> FALSE, files |-> {}, written |-> {}]
      [] scn.kind \in {"ctx_fail", "agent_error", "agent_fail", "nonlist"} ->
            [ok |-> FALSE, files |-> scn.targeted, written |-> {}]
      [] OTHER ->
            IF scn.frags = <<>>
            THEN [ok |-> TRUE, files |-> {}, written |-> {}]
            ELSE LET acc == ApplyFragments(scn.frags, 1,
                                [ok |-> TRUE, applied |-> {}, templ |-> FALSE])
                 IN  IF ~acc.ok
                     THEN [ok |-> FALSE, files |-> FilesOnWriteFailure(acc.applied),
                           written |-> acc.applied]
                     ELSE IF acc.templ /\ ~scn.templ_ok
                     THEN [ok |-> FALSE, files |-> acc.applied, written |-> acc.applied]
                     ELSE [ok |-> TRUE, files |-> acc.applied, written |-> acc.applied]

\* Every result a step can have, over all scenarios.
StepOutcomes == {execute_single_agent_step(scn) : scn \in StepScenarios}

\* ------------------------------------------------------------------ state
VARIABLES
    pc,                     \* position in modifier_orchestrator_main and its callees
    stop_after,             \* args.stop_after
    max_retries,            \* global_config.MAX_BUILD_RETRIES
    target,                 \* the target project tree: path -> content
    workspace,              \* workspace/current_project_state: path -> content
    backups,                \* the backup directory of this run: .bak name -> content
    plan_steps_list,        \* workflow_plan["steps"], as step ids
    build_attempt_number,
    last_build_error_output_for_agents,
    overall_execution_successful,
    all_files_modified_in_workspace_during_loop,
    modified_files_in_current_attempt,
    current_attempt_all_steps_succeeded_flawlessly,
    step_idx,               \* position of the for loop over plan_steps_list
    loop_result,            \* what run_execution_loop returned
    execution_successful,
    last_significant_error,
    apply_plan_file,        \* NoFile, or the plan's "files_to_apply"
    exit_code,              \* -1 while running
    fin,                    \* locals of finalize_execution
    h                       \* history of the run (observations, not program state)

inputs == <<stop_after, max_retries>>
files  == <<target, workspace, backups>>
loopv  == <<build_attempt_number, last_build_error_output_for_agents,
            overall_execution_successful, all_files_modified_in_workspace_during_loop,
            modified_files_in_current_attempt,
            current_attempt_all_steps_succeeded_flawlessly, step_idx>>
mainv  == <<loop_result, execution_successful, last_significant_error, apply_plan_file>>
pipev  == <<pc, inputs, files, plan_steps_list, loopv, mainv, exit_code, fin, h>>

\* State of embedding/core/fragment_processor.py: update_fragment_embeddings_async
\* and the asyncio event loop that runs its tasks.
VARIABLES
    epc,                          \* position in update_fragment_embeddings_async
    CONCURRENT_EMBEDDING_TASKS,   \* config 'embedding_batch_size'
    current_fragments,            \* the manifest's "fragments": ids in file order
    store_file,                   \* fragment_embeddings.json on disk
    old_embeddings_data,
    updated_embeddings_data,
    embedding_tasks,              \* the tasks created at line 211, as fragment ids
    task_state,                   \* of each created task
    task_result,                  \* what each finished task returned
    wrapper_state,                \* of each run_with_semaphore_wrapper coroutine
    ready,                        \* the event loop's queue of runnable callbacks
    semaphore,                    \* asyncio.Semaphore: value and FIFO waiters
    update_result,                \* the value the update returned
    eh                            \* history of the updates (observations)

embv == <<epc, CONCURRENT_EMBEDDING_TASKS, current_fragments, store_file,
          old_embeddings_data, updated_embeddings_data, embedding_tasks, task_state,
          task_result, wrapper_state, ready, semaphore, update_result, eh>>

\* State of embedding/core/faiss_selector.py: the module-level cache, the
\* store file the selector reads, and what its last call returned.
VARIABLES
    EMBEDDINGS_FILE,                  \* fragment_embeddings.json, as the selector reads it
    faiss_index_cache,                \* _faiss_index_cache
    id_to_internal_index_map_cache,   \* _id_to_internal_index_map_cache
    internal_index_to_id_map_cache,   \* _internal_index_to_id_map_cache
    find_result,                      \* the value the last selector call returned
    sh                                \* history of the selector calls (observations)

selv == <<EMBEDDINGS_FILE, faiss_index_cache,
          id_to_internal_index_map_cache, internal_index_to_id_map_cache,
          find_result, sh>>

\* State of one call of execution_loop.py: execute_single_agent_step.
VARIABLES
    spc,                              \* position in execute_single_agent_step
    step_data,                        \* the plan step
    agent_response,                   \* what agent_instance.run returned
    mod_idx,                          \* position of the for loop over modified_fragments
    modifications_applied_successfully_to_workspace,
    applied_files_in_workspace_relative_paths,
    any_templ_file_modified_in_this_step,
    files_targeted_by_this_step,
    step_return,                      \* the (success, paths) the step returned
    elsewhere,                        \* files outside the workspace and the target tree
    th                                \* history of the step (observations)

stepv == <<spc, step_data, agent_response, mod_idx,
           modifications_applied_successfully_to_workspace,
           applied_files_in_workspace_relative_paths,
           any_templ_file_modified_in_this_step, files_targeted_by_this_step,
           step_return, elsewhere, th>>

\* State of the calls of generate_apply_plan_and_diff_report
\* (workflow_steps.py) and of backup_files and restore_from_backup (utils.py)
\* on their own.
VARIABLES
    upc,                              \* position of the call
    project_dir,                      \* the files of the target project tree
    ws_dir,                           \* the files of the workspace copy
    touch_order,                      \* the order in which the steps reported files
    relative_paths_of_modified_files, \* the set built from these reports
    files_to_apply,                   \* "files_to_apply" of the apply-plan file
    diff_report_text,                 \* the sections of the diff report file
    relative_file_paths,              \* the list given to backup_files
    bidx,                             \* position of the for loop over that list
    backup_dir,                       \* the files of the backup directory
    uh                                \* history: the project tree at the start

utilv == <<upc, project_dir, ws_dir, touch_order, relative_paths_of_modified_files,
           files_to_apply, diff_report_text, relative_file_paths, bidx, backup_dir, uh>>

vars   == <<pipev, embv, selv, stepv, utilv>>

\* --------------------------------------------- relative paths as strings
\* Relative paths are sequences of characters, so that comparing them and
\* deriving file names from them is computed.
RelPaths == { <<"a", ".", "b">>, <<"a", "/", "b">>, <<"a", "_", "b">> }

\* The code point of a character (Python compares str by code points).
CharCode(c) ==
    CASE c = "."  -> 46
      [] c = "/"  -> 47
      [] c = "\\" -> 92
      [] c = "_"  -> 95
      [] c = "a"  -> 97
      [] c = "b"  -> 98
      [] c = "d"  -> 100
      [] c = "k"  -> 107
      [] c = "o"  -> 111
      [] c = "t"  -> 116

\* s < t for two str.
RECURSIVE StrLess(_, _)
StrLess(s, t) ==
    IF t = <<>> THEN FALSE
    ELSE IF s = <<>> THEN TRUE
    ELSE IF Head(s) = Head(t) THEN StrLess(Tail(s), Tail(t))
    ELSE CharCode(Head(s)) < CharCode(Head(t))

\* str.replace(old, new) for a one-character old.
RECURSIVE ReplaceChar(_, _, _)
ReplaceChar(s, old, new) ==
    IF s = <<>> THEN <<>>
    ELSE (IF Head(s) = old THEN new ELSE <<Head(s)>>) \o ReplaceChar(Tail(s), old, new)

\* utils.py lines 497-498 and 664-665: the name of the backup file of a
\* relative path, directly in the backup directory.
bak_name(clean_path) ==
    ReplaceChar(ReplaceChar(ReplaceChar(clean_path, "/", <<"_">>), "\\", <<"_">>),
                ".", <<"_", "d", "o", "t", "_">>) \o <<".", "b", "a", "k">>

BakFileNames == {bak_name(p) : p \in RelPaths}

\* The content of a file: none, the original text of the file at path p, or
\* the text the workflow wrote for p.
NoContent == <<"absent", <<>>>>
Orig(p)   == <<"orig", p>>
New(p)    == <<"new", p>>

\* An apply-plan file or a report file that was not written.
NotWritten       == << <<"not written">> >>
NotWrittenReport == << [path |-> <<>>, kind |-> "not_written"] >>

\* None of these calls is running.
UtilIdle ==
    /\ upc = "not_running"
    /\ project_dir = [p \in RelPaths |-> NoContent]
    /\ ws_dir = [p \in RelPaths |-> NoContent]
    /\ touch_order = <<>>
    /\ relative_paths_of_modified_files = {}
    /\ files_to_apply = NotWritten
    /\ diff_report_text = NotWrittenReport
    /\ relative_file_paths = <<>>
    /\ bidx = 0
    /\ backup_dir = [b \in BakFileNames |-> NoContent]
    /\ uh = [project0 |-> project_dir, io_failed |-> FALSE]


\* Fragment ids of the manifest and of the store.
FragIds == {"A", "B", "C"}

\* No store file on disk / a store file that json.load cannot parse.
Absent  == <<"absent">>
Corrupt == <<"corrupt">>

\* A store file holding the JSON text of an empty list, "[]": json.load
\* gives a list, which has a len() and no items.
EmptyJsonList == <<"json_list", <<>>>>

\* What is remembered of the previous update.
NoPrevious == [ran |-> FALSE, result |-> "none", store_after |-> Absent,
               failed |-> {}, io_failed |-> FALSE, manifest_read |-> FALSE]

NoHistory == [run |-> 0, store0 |-> Absent, called |-> {}, io_failed |-> FALSE,
              manifest_read |-> FALSE, max_in_flight |-> 0, prev |-> NoPrevious,
              completed |-> <<>>]

\* The embedding update is not running (the state of these variables in the
\* runs of the modification pipeline).
EmbedIdle ==
    /\ epc = "not_running"
    /\ CONCURRENT_EMBEDDING_TASKS = 1
    /\ current_fragments = <<>>
    /\ store_file = Absent
    /\ old_embeddings_data = <<>>
    /\ updated_embeddings_data = <<>>
    /\ embedding_tasks = <<>>
    /\ task_state = [f \in FragIds |-> "none"]
    /\ task_result = [f \in FragIds |-> "none"]
    /\ wrapper_state = [f \in FragIds |-> "none"]
    /\ ready = <<>>
    /\ semaphore = [value |-> 0, waiters |-> <<>>]
    /\ update_result = "none"
    /\ eh = NoHistory

\* Python's None in the three cache variables of the selector.  An index is
\* its dimension d and the vectors added, in insertion order (ntotal is
\* their number); a dict is the sequence of its items in insertion order.
NoneIndex == [is_none |-> TRUE, d |-> 0, vectors |-> <<>>]
NoneMap   == [is_none |-> TRUE, items |-> <<>>]

\* No selector call has returned yet.
NoFindResult == [returned |-> FALSE, ids |-> <<>>, dists |-> <<>>, err |-> None]

\* What is remembered of the last selector call: its arguments, the state
\* it found, and what it did.  built_ids outlives the call: the ids of the
\* store entries holding a vector, in file order, of the store the cached
\* index was built from.
NoCall == [op |-> "none", top_k |-> 0, threshold |-> None, force |-> FALSE,
           query |-> <<>>, cached_before |-> FALSE, store_existed |-> FALSE,
           manifest |-> Absent, update_calls |-> 0, update_ok |-> FALSE,
           gateway_calls |-> 0, load_ok |-> FALSE, built |-> FALSE,
           built_ids |-> <<>>]

\* The selector has not been imported (the state of these variables in the
\* runs that do not model it).
SelectorIdle ==
    /\ EMBEDDINGS_FILE = Absent
    /\ faiss_index_cache = NoneIndex
    /\ id_to_internal_index_map_cache = NoneMap
    /\ internal_index_to_id_map_cache = NoneMap
    /\ find_result = NoFindResult
    /\ sh = NoCall

\* No plan step / no agent response / no step result.
NoStep == [agent |-> None, target_fragment_ids |-> <<>>, context_fragment_ids |-> <<>>]
NoResponse == [kind |-> "none", modified_fragments |-> <<>>]
NoStepReturn == [returned |-> FALSE, ok |-> FALSE, files |-> {}]
NoStepHistory == [cause |-> "none", agent_runs |-> 0, writes |-> <<>>,
                  write_failed |-> FALSE, templ_runs |-> 0, templ_after |-> 0,
                  templ_ok |-> TRUE, unreadable |-> {},
                  workspace0 |-> [p \in Paths |-> "absent"],
                  target0 |-> [p \in Paths |-> "absent"]]

\* execute_single_agent_step is not running.
StepIdle ==
    /\ spc = "not_running"
    /\ step_data = NoStep
    /\ agent_response = NoResponse
    /\ mod_idx = 0
    /\ modifications_applied_successfully_to_workspace = TRUE
    /\ applied_files_in_workspace_relative_paths = {}
    /\ any_templ_file_modified_in_this_step = FALSE
    /\ files_targeted_by_this_step = {}
    /\ step_return = NoStepReturn
    /\ elsewhere = {}
    /\ th = NoStepHistory

NoResult == [ok |-> FALSE, err |-> None, files |-> {}, returned |-> FALSE]
NoEnd    == [kind |-> "none", err |-> None, pre |-> None]
NoFirst  == [result |-> "none", target |-> <<>>, plan_unreadable |-> FALSE,
             mkdir_failed |-> FALSE, copy_failed |-> {}]
FinIdle  == [paths |-> <<>>, i |-> 0, errors |-> FALSE, copied |-> 0, result |-> "none"]

\* .bak file name of a relative path (utils.py lines 497-498): '/' and '\'
\* become '_', '.' becomes '_dot_', ".bak" is appended.
BakName(p) ==
    CASE p = "pkg/x.go"      -> "pkg_x_dot_go.bak"
      [] p = "views/v.templ" -> "views_v_dot_templ.bak"
BakNames == {BakName(p) : p \in Paths}

Init ==
    /\ UtilIdle
    /\ EmbedIdle
    /\ SelectorIdle
    /\ StepIdle
    /\ pc = "load_manifest"
    /\ stop_after \in StopAfterChoices
    /\ max_retries \in 0..MaxRetries
    /\ target \in [Paths -> {"absent", "orig"}]
    /\ workspace \in [Paths -> {"absent", "stale"}]
    /\ backups = [b \in BakNames |-> "absent"]
    /\ plan_steps_list = <<>>
    /\ build_attempt_number = 0
    /\ last_build_error_output_for_agents = None
    /\ overall_execution_successful = FALSE
    /\ all_files_modified_in_workspace_during_loop = {}
    /\ modified_files_in_current_attempt = {}
    /\ current_attempt_all_steps_succeeded_flawlessly = TRUE
    /\ step_idx = 0
    /\ loop_result = NoResult
    /\ execution_successful = FALSE
    /\ last_significant_error = None
    /\ apply_plan_file = NoFile
    /\ exit_code = -1
    /\ fin = FinIdle
    /\ h = [target0 |-> target, stage_failed |-> FALSE,
            attempts |-> 0, builds |-> 0, step_runs |-> <<>>,
            att_steps |-> <<>>, att_oks |-> <<>>, att_builds |-> 0,
            handed |-> None, att_start_err |-> None,
            cur_end |-> NoEnd, prev_end |-> NoEnd,
            returned_union |-> {}, written_union |-> {},
            last_action |-> "none", after_ok |-> 0,
            fin_calls |-> 0, backup_failed |-> FALSE, copy_failed |-> {},
            last_failed_build |-> None, first_failed_step |-> None,
            preps |-> 0, prep_ok |-> FALSE,
            plan_unreadable |-> FALSE, mkdir_failed |-> FALSE]

\* handle_modifier_pipeline_exit(message, code): sys.exit(code).
ExitWith(code) ==
    /\ pc' = "exit"
    /\ exit_code' = code

\* ------------------------------------------- main.py: stages before the loop
\* if stop_after_stage == '<stage>' (lines 125, 142, 151, 194).
StopRequestedIgnored(stage) == FALSE

StopRequested(stage) == stop_after = stage

\* Phase 1 (lines 106-114): a missing or unparsable manifest exits with 1.
LoadManifest(ok) ==
    /\ pc = "load_manifest"
    /\ IF ok
       THEN /\ pc' = "selection"
            /\ UNCHANGED <<exit_code, h>>
       ELSE /\ ExitWith(1)
            /\ h' = [h EXCEPT !.stage_failed = TRUE]
    /\ UNCHANGED <<embv, selv, stepv, utilv, inputs, files, plan_steps_list, loopv, mainv, fin>>

\* Line 118: the statuses of the selection with which the run goes on; no
\* result at all (None) is the status "none".
SelectionAccepted(status) == status \in {"success", "success_no_fragments_found"}

\* Phase 2 (lines 116-128): run_semantic_fragment_selection reads the
\* embedding store; failure exits with 1, --stop-after optimization with 0.
SemanticSelection(status) ==
    /\ pc = "selection"
    /\ IF ~SelectionAccepted(status)
       THEN /\ ExitWith(1)
            /\ h' = [h EXCEPT !.stage_failed = TRUE]
       ELSE IF StopRequested("optimization")
       THEN /\ ExitWith(0)
            /\ UNCHANGED h
       ELSE /\ pc' = "planning"
            /\ UNCHANGED <<exit_code, h>>
    /\ UNCHANGED <<embv, selv, stepv, utilv, inputs, files, plan_steps_list, loopv, mainv, fin>>

\* Phase 3 (lines 130-143): run_planning returns the planner's response
\* (steps: a list, possibly empty) or None; it writes workflow_plan.json
\* under the workspace root only.
Planning(ok, n) ==
    /\ pc = "planning"
    /\ IF ~ok
       THEN /\ ExitWith(1)
            /\ h' = [h EXCEPT !.stage_failed = TRUE]
            /\ UNCHANGED plan_steps_list
       ELSE /\ plan_steps_list' = [i \in 1..n |-> i]
            /\ h' = [h EXCEPT !.step_runs = [i \in 1..n |-> 0]]
            /\ IF StopRequested("planning")
               THEN ExitWith(0)
               ELSE pc' = "workspace_prep" /\ UNCHANGED exit_code
    /\ UNCHANGED <<embv, selv, stepv, utilv, inputs, files, loopv, mainv, fin>>

\* shutil.rmtree then shutil.copytree (workflow_steps.py lines 239-264): the
\* tree the workspace directory holds after both succeeded.
CopyTreeOverPrevious(previous, project) ==
    [p \in Paths |-> IF project[p] # "absent" THEN project[p] ELSE previous[p]]

CopyTree(previous, project) == project

\* Phase 4a (main.py lines 145-152) and prepare_execution_workspace
\* (workflow_steps.py lines 232-276).  The target is only read.
\*   outcome "ok"           : the previous workspace copy is removed and the
\*                            target tree is copied; the path is returned.
\*   outcome "rmtree_fails" : removing the previous copy raises, or leaves
\*                            the directory in place (lines 242-249).
\*   outcome "copy_fails"   : mkdir or copytree raises (lines 251-262).
\* On a failure None is returned and the run exits with 1; kept are the files
\* still in the workspace directory then: none when the cleanup of lines
\* 270-274 worked, otherwise what rmtree or the cleanup could not remove.
prepare_execution_workspace(outcome, kept) ==
    /\ pc = "workspace_prep"
    /\ CASE outcome = "ok" ->
              /\ kept = {}
              /\ workspace' = CopyTree(workspace, target)
              /\ h' = [h EXCEPT !.preps = @ + 1, !.prep_ok = TRUE]
              /\ IF StopRequested("workspace_prep")
                 THEN ExitWith(0)
                 ELSE pc' = "loop_entry" /\ UNCHANGED exit_code
         [] outcome = "rmtree_fails" ->
              /\ \E p \in Paths : workspace[p] # "absent"
              /\ kept \subseteq {p \in Paths : workspace[p] # "absent"}
              /\ workspace' = [p \in Paths |-> IF p \in kept THEN workspace[p] ELSE "absent"]
              /\ ExitWith(1)
              /\ h' = [h EXCEPT !.stage_failed = TRUE, !.preps = @ + 1]
         [] outcome = "copy_fails" ->
              /\ kept \subseteq {p \in Paths : target[p] # "absent"}
              /\ workspace' = [p \in Paths |-> IF p \in kept THEN target[p] ELSE "absent"]
              /\ ExitWith(1)
              /\ h' = [h EXCEPT !.stage_failed = TRUE, !.preps = @ + 1]
    /\ UNCHANGED <<embv, selv, stepv, utilv, inputs, target, backups, plan_steps_list, loopv, mainv, fin>>

\* ------------------------------------ execution_loop.py: run_execution_loop
\* The message recorded for a failed step (lines 235-238): it names the
\* step id (and the agent).
StepFailureMessageEmpty(step_id) == None

StepFailureMessage(step_id) == <<"step_failed", step_id>>

\* while build_attempt_number < max_retries (line 205).
WhileGuardOffByOne(n, max) == n <= max

WhileGuard(n, max) == n < max

\* A failed step ends the for loop over the plan (line 239: break).
BreakOnStepFailureMissing(step_ok) == FALSE

BreakOnStepFailure(step_ok) == ~step_ok

\* last_build_error_output_for_agents after a failed step (lines 234-238):
\* the step message is stored only if no error is recorded yet.
ErrorAfterStepFailureOverwrites(last, step_id) == StepFailureMessage(step_id)

ErrorAfterStepFailure(last, step_id) ==
    IF ~Truthy(last) THEN StepFailureMessage(step_id) ELSE last

\* all_files_modified_in_workspace_during_loop.update(...) (line 241).
AccumulateFilesReplaces(all, attempt_files) == attempt_files

AccumulateFiles(all, attempt_files) == all \cup attempt_files

\* The attempt stops before the build (line 243).
SkipBuildNever(flawless) == FALSE

SkipBuild(flawless) == ~flawless

\* last_build_error_output_for_agents after a successful build (line 264).
ErrorAfterBuildSuccessKept(last) == last

ErrorAfterBuildSuccess(last) == None

\* last_build_error_output_for_agents after a failed build (line 268).
ErrorAfterBuildFailureKeepsFirst(last, out) == IF Truthy(last) THEN last ELSE out

ErrorAfterBuildFailure(last, out) == out

\* The id of the first failed step among the steps executed in an attempt.
FirstFailed(steps, oks) ==
    steps[CHOOSE i \in 1..Len(oks) : ~oks[i] /\ \A j \in 1..(i - 1) : oks[j]]

\* if not plan_steps_list (line 201): an empty list (or a missing "steps"
\* key, which .get("steps", []) turns into the empty list).
PlanIsEmptyNever(steps) == FALSE

PlanIsEmpty(steps) == steps = <<>>

\* The workspace after a step wrote the files written (execute_single_agent_step,
\* lines 142-145): the other files are as the steps and attempts before left
\* them; nothing in the loop copies the project again.
WorkspaceAfterStepOnFreshCopy(ws, written) ==
    [p \in Paths |-> IF p \in written THEN "new" ELSE target[p]]

WorkspaceAfterStep(ws, written) ==
    [p \in Paths |-> IF p \in written THEN "new" ELSE ws[p]]

\* Lines 195-203: the locals, and the immediate return for an empty plan.
LoopEntry ==
    /\ pc = "loop_entry"
    /\ build_attempt_number' = 0
    /\ last_build_error_output_for_agents' = None
    /\ overall_execution_successful' = FALSE
    /\ all_files_modified_in_workspace_during_loop' = {}
    /\ IF PlanIsEmpty(plan_steps_list)
       THEN /\ loop_result' = [ok |-> TRUE, err |-> None, files |-> {}, returned |-> TRUE]
            /\ pc' = "after_loop"
       ELSE /\ pc' = "loop_head"
            /\ UNCHANGED loop_result
    /\ UNCHANGED <<embv, selv, stepv, utilv, inputs, files, plan_steps_list, modified_files_in_current_attempt,
                   current_attempt_all_steps_succeeded_flawlessly, step_idx,
                   execution_successful, last_significant_error, apply_plan_file,
                   exit_code, fin, h>>

\* Lines 205-215: the while test and the start of an attempt.
BeginAttempt ==
    /\ pc = "loop_head"
    /\ IF WhileGuard(build_attempt_number, max_retries)
       THEN /\ build_attempt_number' = build_attempt_number + 1
            /\ current_attempt_all_steps_succeeded_flawlessly' = TRUE
            /\ modified_files_in_current_attempt' = {}
            /\ step_idx' = 1
            /\ pc' = "run_steps"
            /\ h' = [h EXCEPT !.attempts = @ + 1, !.att_steps = <<>>, !.att_oks = <<>>,
                              !.att_builds = 0, !.handed = None,
                              !.att_start_err = last_build_error_output_for_agents,
                              !.prev_end = h.cur_end, !.cur_end = NoEnd]
       ELSE /\ pc' = "loop_return"
            /\ UNCHANGED <<build_attempt_number, modified_files_in_current_attempt,
                           current_attempt_all_steps_succeeded_flawlessly, step_idx, h>>
    /\ UNCHANGED <<embv, selv, stepv, utilv, inputs, files, plan_steps_list, last_build_error_output_for_agents,
                   overall_execution_successful,
                   all_files_modified_in_workspace_during_loop, mainv, exit_code, fin>>

\* Lines 217-250: one iteration of the for loop over the plan, and, when the
\* for loop ends with it, the accumulation and the decision that follows.
\* r is the result of execute_single_agent_step.  The paths a step reports
\* without having written them are the files it targeted: the context
\* builder read them from the workspace, so they exist there.
ExecuteStep(r) ==
    /\ pc = "run_steps"
    /\ (r.files \ r.written) \subseteq {p \in Paths : workspace[p] # "absent"}
    /\ LET step_id  == plan_steps_list[step_idx]
           previous_build_error == last_build_error_output_for_agents
           cur      == modified_files_in_current_attempt \cup r.files
           flawless == current_attempt_all_steps_succeeded_flawlessly /\ r.ok
           err      == IF r.ok THEN last_build_error_output_for_agents
                       ELSE ErrorAfterStepFailure(last_build_error_output_for_agents, step_id)
           for_ends == BreakOnStepFailure(r.ok) \/ step_idx = Len(plan_steps_list)
           all      == IF for_ends
                       THEN AccumulateFiles(all_files_modified_in_workspace_during_loop, cur)
                       ELSE all_files_modified_in_workspace_during_loop
           aborted  == for_ends /\ SkipBuild(flawless)
       IN  /\ modified_files_in_current_attempt' = cur
           /\ current_attempt_all_steps_succeeded_flawlessly' = flawless
           /\ last_build_error_output_for_agents' = err
           /\ all_files_modified_in_workspace_during_loop' = all
           /\ workspace' = WorkspaceAfterStep(workspace, r.written)
           /\ step_idx' = IF for_ends THEN step_idx ELSE step_idx + 1
           /\ pc' = IF ~for_ends THEN "run_steps"
                    ELSE IF ~aborted THEN "build"
                    ELSE IF build_attempt_number < max_retries THEN "loop_head"
                    ELSE "loop_return"
           /\ overall_execution_successful' =
                  IF aborted /\ ~(build_attempt_number < max_retries)
                  THEN FALSE ELSE overall_execution_successful
           /\ h' = [h EXCEPT !.att_steps = Append(@, step_idx),
                             !.att_oks = Append(@, r.ok),
                             !.step_runs[step_idx] = @ + 1,
                             !.handed = previous_build_error,
                             !.returned_union = @ \cup r.files,
                             !.written_union = @ \cup r.written,
                             !.last_action = IF r.ok THEN "step_ok" ELSE "step_failed",
                             !.first_failed_step = IF ~r.ok /\ @ = None
                                                   THEN StepFailureMessage(step_id) ELSE @,
                             !.after_ok = IF h.last_action = "build_ok" THEN @ + 1 ELSE @,
                             !.cur_end = IF aborted
                                         THEN [kind |-> "step_failed",
                                               err |-> StepFailureMessage(
                                                   FirstFailed(Append(h.att_steps, step_idx),
                                                               Append(h.att_oks, r.ok))),
                                               pre |-> h.att_start_err]
                                         ELSE @]
    /\ UNCHANGED <<embv, selv, stepv, utilv, inputs, target, backups, plan_steps_list, build_attempt_number,
                   mainv, exit_code, fin>>

\* Lines 252-275: the build command on the workspace and what follows it.
RunBuild(o) ==
    /\ pc = "build"
    /\ IF o.ok
       THEN /\ overall_execution_successful' = TRUE
            /\ last_build_error_output_for_agents' =
                   ErrorAfterBuildSuccess(last_build_error_output_for_agents)
            /\ pc' = "loop_return"
       ELSE /\ last_build_error_output_for_agents' =
                   ErrorAfterBuildFailure(last_build_error_output_for_agents, o.out)
            /\ IF build_attempt_number >= max_retries
               THEN overall_execution_successful' = FALSE /\ pc' = "loop_return"
               ELSE UNCHANGED overall_execution_successful /\ pc' = "loop_head"
    /\ h' = [h EXCEPT !.builds = @ + 1, !.att_builds = @ + 1,
                      !.last_action = IF o.ok THEN "build_ok" ELSE "build_failed",
                      !.last_failed_build = IF o.ok THEN @ ELSE o.out,
                      !.after_ok = IF h.last_action = "build_ok" THEN @ + 1 ELSE @,
                      !.cur_end = IF o.ok THEN [kind |-> "build_ok", err |-> None,
                                                pre |-> h.att_start_err]
                                  ELSE [kind |-> "build_failed", err |-> o.out,
                                        pre |-> h.att_start_err]]
    /\ UNCHANGED <<embv, selv, stepv, utilv, inputs, files, plan_steps_list, build_attempt_number,
                   all_files_modified_in_workspace_during_loop,
                   modified_files_in_current_attempt,
                   current_attempt_all_steps_succeeded_flawlessly, step_idx,
                   mainv, exit_code, fin>>

\* Lines 277-284: the return of run_execution_loop.
LoopReturn ==
    /\ pc = "loop_return"
    /\ loop_result' = [ok |-> overall_execution_successful,
                       err |-> last_build_error_output_for_agents,
                       files |-> all_files_modified_in_workspace_during_loop,
                       returned |-> TRUE]
    /\ pc' = "after_loop"
    /\ UNCHANGED <<embv, selv, stepv, utilv, inputs, files, plan_steps_list, loopv, execution_successful,
                   last_significant_error, apply_plan_file, exit_code, fin, h>>

\* ---------------------------------------------- main.py: after the loop
\* The message main.py stores when a later stage fails and no error is
\* recorded yet ("last_significant_error or ...").
OrElse(e, msg) == IF Truthy(e) THEN e ELSE msg

\* Lines 162-205: the loop's result, the diff report and the apply-plan
\* (generate_apply_plan_and_diff_report, workflow_steps.py lines 326-377,
\* writes under workspace/modification_reports only), and --stop-after
\* execution.  plan_outcome: "ok", "fail" (the plan file cannot be written)
\* or "raise" (an exception outside the function's try blocks, caught by
\* main.py line 225, exit code 2).
AfterLoop(plan_outcome) ==
    /\ pc = "after_loop"
    /\ LET generate == loop_result.ok /\ loop_result.files # {}
           raised   == generate /\ plan_outcome = "raise"
           plan     == IF generate /\ plan_outcome = "ok"
                       THEN Sorted(loop_result.files) ELSE NoFile
           success  == loop_result.ok /\ (loop_result.files = {} \/ plan # NoFile)
           error    == IF generate /\ plan = NoFile
                       THEN OrElse(loop_result.err, <<"apply_plan_failed", 0>>)
                       ELSE loop_result.err
       IN  /\ (~generate => plan_outcome = "ok")
           /\ last_significant_error' = error
           /\ IF raised
              THEN /\ ExitWith(2)
                   /\ UNCHANGED <<execution_successful, apply_plan_file>>
                   /\ h' = [h EXCEPT !.stage_failed = TRUE]
              ELSE /\ execution_successful' = success
                   /\ apply_plan_file' = plan
                   /\ h' = [h EXCEPT !.stage_failed = ~success]
                   /\ IF StopRequested("execution")
                      THEN ExitWith(IF success THEN 0 ELSE 1)
                      ELSE pc' = "finalize_decision" /\ UNCHANGED exit_code
    /\ UNCHANGED <<embv, selv, stepv, utilv, inputs, files, plan_steps_list, loopv, loop_result, fin>>

\* if execution_successful and apply_plan_file (line 208).
CanFinalizeWithoutPlan(success, plan) == success

CanFinalize(success, plan) == success /\ plan # NoFile

\* Lines 207-221: finalize_execution is called, or the run is marked failed
\* because no apply-plan exists.
FinalizeDecision ==
    /\ pc = "finalize_decision"
    /\ IF CanFinalize(execution_successful, apply_plan_file)
       THEN /\ pc' = "finalize"
            /\ h' = [h EXCEPT !.fin_calls = @ + 1]
            /\ UNCHANGED <<execution_successful, last_significant_error>>
       ELSE /\ pc' = "final_exit"
            /\ IF apply_plan_file = NoFile /\ execution_successful
               THEN /\ execution_successful' = FALSE
                    /\ last_significant_error' =
                           OrElse(last_significant_error, <<"apply_plan_missing", 0>>)
                    /\ h' = [h EXCEPT !.stage_failed = TRUE]
               ELSE UNCHANGED <<execution_successful, last_significant_error, h>>
    /\ UNCHANGED <<embv, selv, stepv, utilv, inputs, files, plan_steps_list, loopv, loop_result, apply_plan_file,
                   exit_code, fin>>

\* Lines 235-242: the exit code of a run that reached the end.
FinalExit ==
    /\ pc = "final_exit"
    /\ ExitWith(IF execution_successful THEN 0 ELSE 1)
    /\ UNCHANGED <<embv, selv, stepv, utilv, inputs, files, plan_steps_list, loopv, mainv, fin, h>>

\* ---------------------------------- workflow_steps.py: finalize_execution
\* backup_files (utils.py lines 466-514) for the paths to_backup, all files
\* of the target: each is copied to its .bak name; a copy that raises is
\* logged and the loop goes on (lines 505-508).  copy_ok[p] is whether
\* shutil.copy2 succeeded for p.
backup_files(to_backup, copy_ok) ==
    [b \in BakNames |->
        IF \E p \in to_backup : BakName(p) = b /\ copy_ok[p]
        THEN target[CHOOSE p \in to_backup : BakName(p) = b /\ copy_ok[p]]
        ELSE backups[b]]

\* Line 406: not isinstance(rel_paths_to_apply, list) or not
\* rel_paths_to_apply; then finalize_execution returns True (line 409).
NothingToApply(plan) == plan \in CorruptPlans \/ plan = <<>>

\* Lines 388-431: the plan is loaded and the originals are backed up.
\* plan_ok: the plan file is there and parses; mkdir_ok: the backup
\* directory could be created (otherwise backup_files raises, line 480, and
\* finalize_execution returns False, line 431).
FinalizeBackup(plan_ok, mkdir_ok, copy_ok) ==
    /\ pc = "finalize"
    /\ LET rel_paths_to_apply == apply_plan_file
           files_to_backup == {rel_paths_to_apply[i] : i \in DOMAIN rel_paths_to_apply}
                                \cap {p \in Paths : target[p] # "absent"}
       IN  IF ~plan_ok \/ apply_plan_file = NoFile
           THEN /\ fin' = [FinIdle EXCEPT !.result = "failure"]
                /\ pc' = "finalize_return"
                /\ h' = [h EXCEPT !.plan_unreadable = TRUE]
                /\ UNCHANGED backups
           ELSE IF NothingToApply(apply_plan_file)
           THEN /\ fin' = [FinIdle EXCEPT !.result = "success"]
                /\ pc' = "finalize_return"
                /\ UNCHANGED <<backups, h>>
           ELSE IF files_to_backup # {} /\ ~mkdir_ok
           THEN /\ fin' = [FinIdle EXCEPT !.result = "failure"]
                /\ pc' = "finalize_return"
                /\ h' = [h EXCEPT !.backup_failed = TRUE, !.mkdir_failed = TRUE]
                /\ UNCHANGED backups
           ELSE /\ backups' = backup_files(files_to_backup, copy_ok)
                /\ fin' = [FinIdle EXCEPT !.paths = rel_paths_to_apply, !.i = 1]
                /\ pc' = "finalize_copy"
                /\ h' = [h EXCEPT !.backup_failed = \E p \in files_to_backup : ~copy_ok[p]]
    /\ UNCHANGED <<embv, selv, stepv, utilv, inputs, target, workspace, plan_steps_list, loopv, mainv, exit_code>>

\* for rel_path in rel_paths_to_apply (line 435): the loop ends after the
\* last planned path; an error (lines 438-452) does not end it.
CopyLoopStopsOnError(i, n, error) == i = n \/ error

CopyLoopDone(i, n, error) == i = n

\* shutil.copy2(src, dst) (line 444): the content dst has afterwards.
CopyFileUnlessPresent(src, dst) == IF dst = src THEN "orig" ELSE src

CopyFile(src, dst) == src

\* Lines 435-452: one iteration of the copy loop.  A missing workspace
\* source or a failing copy sets errors and the loop goes on.
FinalizeCopy(copy_ok) ==
    /\ pc = "finalize_copy"
    /\ LET rel_path == fin.paths[fin.i]
           src_is_file == workspace[rel_path] # "absent"
           copied == src_is_file /\ copy_ok
           done == CopyLoopDone(fin.i, Len(fin.paths), ~copied)
       IN  /\ IF copied
              THEN /\ target' = [target EXCEPT ![rel_path] = CopyFile(workspace[rel_path], @)]
                   /\ fin' = [fin EXCEPT !.copied = @ + 1, !.i = @ + 1]
                   /\ UNCHANGED h
              ELSE /\ UNCHANGED target
                   /\ fin' = [fin EXCEPT !.errors = TRUE, !.i = @ + 1]
                   /\ h' = [h EXCEPT !.copy_failed = @ \cup {rel_path}]
           /\ pc' = IF done THEN "finalize_end" ELSE "finalize_copy"
    /\ UNCHANGED <<embv, selv, stepv, utilv, inputs, workspace, backups, plan_steps_list, loopv, mainv, exit_code>>

\* Lines 454-462: the result of the copy loop.
FinalizeEnd ==
    /\ pc = "finalize_end"
    /\ fin' = [fin EXCEPT !.result = IF fin.errors THEN "failure" ELSE "success"]
    /\ pc' = "finalize_return"
    /\ UNCHANGED <<embv, selv, stepv, utilv, inputs, files, plan_steps_list, loopv, mainv, exit_code, h>>

\* main.py lines 209-216: the caller takes finalize_execution's result.
FinalizeReturn ==
    /\ pc = "finalize_return"
    /\ IF fin.result = "success"
       THEN UNCHANGED <<execution_successful, last_significant_error>>
       ELSE /\ execution_successful' = FALSE
            /\ last_significant_error' =
                   OrElse(last_significant_error, <<"finalize_failed", 0>>)
    /\ pc' = "final_exit"
    /\ UNCHANGED <<embv, selv, stepv, utilv, inputs, files, plan_steps_list, loopv, loop_result, apply_plan_file,
                   exit_code, fin, h>>

\* ----------------------------------------------------------- specification
Next ==
    \/ \E ok \in BOOLEAN : LoadManifest(ok)
    \/ \E status \in {"success", "success_no_fragments_found", "error", "none"} :
           SemanticSelection(status)
    \/ \E ok \in BOOLEAN, n \in 0..MaxPlanLen : Planning(ok, n)
    \/ \E outcome \in {"ok", "rmtree_fails", "copy_fails"}, kept \in SUBSET Paths :
           prepare_execution_workspace(outcome, kept)
    \/ LoopEntry
    \/ BeginAttempt
    \/ \E r \in StepOutcomes : ExecuteStep(r)
    \/ \E o \in BuildOutcomes : RunBuild(o)
    \/ LoopReturn
    \/ \E plan_outcome \in {"ok", "fail", "raise"} : AfterLoop(plan_outcome)
    \/ FinalizeDecision
    \/ \E plan_ok \in BOOLEAN, mkdir_ok \in BOOLEAN, copy_ok \in [Paths -> BOOLEAN] :
           FinalizeBackup(plan_ok, mkdir_ok, copy_ok)
    \/ \E copy_ok \in BOOLEAN : FinalizeCopy(copy_ok)
    \/ FinalizeEnd
    \/ FinalizeReturn
    \/ FinalExit

Spec == Init /\ [][Next]_vars

\* ------------------------------ finalize_execution, called on its own
\* The apply-plans: "files_to_apply" lists distinct relative paths.
ApplyPlans ==
    {q \in SeqsUpTo(Paths, Cardinality(Paths)) : \A i, j \in DOMAIN q : q[i] = q[j] => i = j}

\* finalize_execution(apply_plan_path, workspace_path, target_project_path)
\* is entered with any plan, any workspace copy (a planned path may have no
\* file there) and any target tree; no backup directory exists yet.
FinalizeInit ==
    /\ UtilIdle
    /\ EmbedIdle
    /\ SelectorIdle
    /\ StepIdle
    /\ pc = "finalize"
    /\ stop_after = "none"
    /\ max_retries = 1
    /\ target \in [Paths -> {"absent", "orig"}]
    /\ workspace \in [Paths -> {"absent", "orig", "new"}]
    /\ backups = [b \in BakNames |-> "absent"]
    /\ apply_plan_file \in ApplyPlans \cup CorruptPlans
    /\ plan_steps_list = <<>>
    /\ build_attempt_number = 0
    /\ last_build_error_output_for_agents = None
    /\ overall_execution_successful = TRUE
    /\ all_files_modified_in_workspace_during_loop = {}
    /\ modified_files_in_current_attempt = {}
    /\ current_attempt_all_steps_succeeded_flawlessly = TRUE
    /\ step_idx = 0
    /\ loop_result = [ok |-> TRUE, err |-> None, files |-> {}, returned |-> TRUE]
    /\ execution_successful = TRUE
    /\ last_significant_error = None
    /\ exit_code = -1
    /\ fin = FinIdle
    /\ h = [target0 |-> target, fin_calls |-> 1, backup_failed |-> FALSE,
            copy_failed |-> {}, plan_unreadable |-> FALSE, mkdir_failed |-> FALSE,
            first |-> NoFirst]

\* finalize_execution is called a second time with the same plan file and
\* the same workspace; the target is as the first call left it, and the
\* backup directory of the call is a new one (line 415, named by the time).
ApplyAgain ==
    /\ pc = "finalize_return"
    /\ h.fin_calls = 1
    /\ pc' = "finalize"
    /\ fin' = FinIdle
    /\ backups' = [b \in BakNames |-> "absent"]
    /\ h' = [h EXCEPT !.fin_calls = 2,
                      !.first = [result |-> fin.result, target |-> target,
                                 plan_unreadable |-> h.plan_unreadable,
                                 mkdir_failed |-> h.mkdir_failed,
                                 copy_failed |-> h.copy_failed],
                      !.target0 = target,
                      !.backup_failed = FALSE, !.copy_failed = {},
                      !.plan_unreadable = FALSE, !.mkdir_failed = FALSE]
    /\ UNCHANGED <<embv, selv, stepv, utilv, inputs, target, workspace, plan_steps_list, loopv, mainv, exit_code>>

FinalizeNext ==
    \/ ApplyAgain
    \/ \E plan_ok \in BOOLEAN, mkdir_ok \in BOOLEAN, copy_ok \in [Paths -> BOOLEAN] :
           FinalizeBackup(plan_ok, mkdir_ok, copy_ok)
    \/ \E copy_ok \in BOOLEAN : FinalizeCopy(copy_ok)
    \/ FinalizeEnd

FinalizeSpec == FinalizeInit /\ [][FinalizeNext]_vars

\* ------------------------------------------------------------- properties
LoopPcs == {"loop_entry", "loop_head", "run_steps", "build", "loop_return"}

\* The steps 1..n of the plan, in plan order.
Prefix(n) == [i \in 1..n |-> i]

\* All steps of the plan ran in the current attempt and all succeeded.
AllStepsSucceeded ==
    /\ h.att_steps = Prefix(Len(plan_steps_list))
    /\ \A i \in DOMAIN h.att_oks : h.att_oks[i]

\* C1: the target tree is written only by finalize_execution's copy loop;
\* finalize_execution is called at most once, and only after
\* run_execution_loop returned success and an apply-plan was generated; in a
\* run where a stage before finalization failed, the loop exhausted its
\* attempts, or --stop-after is set, the target keeps its initial content.
C1_State ==
    /\ h.fin_calls <= 1
    /\ (h.fin_calls = 1 =>
            loop_result.returned /\ loop_result.ok /\ apply_plan_file # NoFile)
    /\ ( (h.stage_failed \/ stop_after # "none"
            \/ (loop_result.returned /\ ~loop_result.ok))
         => target = h.target0 )

C2_BackupBeforeOverwrite ==
    /\ \A p \in Paths :
          h.target0[p] # "absent" /\ target[p] # h.target0[p]
              => backups[BakName(p)] = h.target0[p]
    /\ (h.backup_failed => target = h.target0 /\ fin.result # "success")

C4_StepsArePrefix ==
    /\ Len(h.att_steps) <= Len(plan_steps_list)
    /\ h.att_steps = Prefix(Len(h.att_steps))
    /\ \A i \in DOMAIN h.att_oks : i < Len(h.att_oks) => h.att_oks[i]

C4_Witness ==
    /\ h.prev_end.kind = "step_failed"
    /\ h.prev_end.err = StepFailureMessage(1)
    /\ Len(plan_steps_list) >= 2
    /\ h.att_steps = Prefix(2)

\* C5: the build runs in an attempt iff every step of the plan succeeded in
\* that attempt; it runs at most once per attempt, after the last step.
C5_BuildIffAllStepsSucceeded ==
    /\ h.att_builds <= 1
    /\ (h.att_builds = 1 => AllStepsSucceeded)
    /\ (h.att_builds = 1 => pc # "run_steps")
    /\ (pc = "build" => AllStepsSucceeded /\ h.att_builds = 0)
    /\ (h.attempts >= 1 /\ AllStepsSucceeded => pc = "build" \/ h.att_builds = 1)
    /\ (h.cur_end.kind = "step_failed" => h.att_builds = 0)

C5_Witness ==
    /\ h.cur_end.kind = "step_failed"
    /\ h.att_builds = 0
    /\ h.builds >= 1
    /\ h.prev_end.kind = "build_failed"

\* C6: after a successful build no step and no build runs; the loop returns
\* success with error None whatever earlier attempts recorded; for a
\* non-empty plan success is returned only when the last action was a
\* successful build.
C6_SuccessIsFinalAndClean ==
    /\ h.after_ok = 0
    /\ (h.last_action = "build_ok" => pc \notin {"loop_head", "run_steps", "build"})
    /\ (loop_result.returned /\ h.last_action = "build_ok"
            => loop_result.ok /\ loop_result.err = None)
    /\ (loop_result.returned /\ loop_result.ok /\ plan_steps_list # <<>>
            => h.last_action = "build_ok")

C6_Witness ==
    /\ loop_result.returned /\ loop_result.ok
    /\ h.prev_end.kind = "build_failed"
    /\ h.prev_end.pre = StepFailureMessage(1)

\* C7: after an attempt that ended with a failed build, every step of the
\* next attempt is handed exactly that build's output; a failed build in an
\* attempt i < max_retries is followed by another attempt, and in attempt
\* i = max_retries by the return of failure with that output as the error.
C7_BuildErrorHandedOn ==
    /\ (h.att_steps # <<>> /\ h.prev_end.kind = "build_failed"
            => h.handed = h.prev_end.err)
    /\ (h.cur_end.kind = "build_failed" /\ h.attempts < max_retries
            => pc = "loop_head" /\ ~loop_result.returned)
    /\ (h.cur_end.kind = "build_failed" /\ h.attempts >= max_retries
            => \/ pc = "loop_return"
               \/ /\ loop_result.returned /\ ~loop_result.ok
                  /\ loop_result.err = h.cur_end.err)

C7_Witness ==
    /\ h.att_steps # <<>>
    /\ h.prev_end.kind = "build_failed"
    /\ h.prev_end.pre \notin {None, h.prev_end.err}
    /\ h.handed = h.prev_end.err

C9_TouchedSetIsUnion ==
    /\ [](loop_result.returned => loop_result.files = h.returned_union)
    /\ [][all_files_modified_in_workspace_during_loop
            \subseteq all_files_modified_in_workspace_during_loop']_vars

C9_Witness ==
    /\ loop_result.returned /\ ~loop_result.ok
    /\ h.attempts = 1
    /\ h.cur_end.err = StepFailureMessage(2)
    /\ h.att_oks = <<TRUE, FALSE>>
    /\ "pkg/x.go" \in loop_result.files

\* C10: every path a step wrote into the workspace, whatever the outcome of
\* the step, is in the set run_execution_loop returns; a successful step
\* returns exactly the paths it wrote.
C10_WrittenPathsAreReturned ==
    /\ \A r \in StepOutcomes : r.ok => r.files = r.written
    /\ (loop_result.returned => h.written_union \subseteq loop_result.files)

\* C11: for an empty plan and every max_retries, run_execution_loop returns
\* at once: no attempt starts, no step and no build runs, and the result is
\* success with error None and an empty touched-path set.
C11_EmptyPlanIsImmediateSuccess ==
    plan_steps_list = <<>> =>
        /\ pc \notin {"loop_head", "run_steps", "build", "loop_return"}
        /\ h.attempts = 0 /\ h.builds = 0 /\ h.att_steps = <<>>
        /\ (h.prep_ok => workspace = target)
        /\ (loop_result.returned =>
                loop_result.ok /\ loop_result.err = None /\ loop_result.files = {})

C11_Witness ==
    /\ plan_steps_list = <<>>
    /\ loop_result.returned /\ loop_result.ok
    /\ max_retries = 0
    /\ pc = "after_loop"

\* C12: a run without --stop-after exits with code 0 exactly when the loop
\* returned success and, if at least one path was touched, finalization
\* succeeded; in particular a loop success with an empty touched-path set
\* exits with 0; a failed loop exits non-zero with the loop's error as the
\* last error, and a failed finalization exits non-zero with an error set.
C12_ExitCodeReflectsOutcome ==
    pc = "exit" /\ stop_after = "none" =>
        LET loop_ok == loop_result.returned /\ loop_result.ok
        IN  /\ (exit_code = 0 <=>
                    loop_ok /\ (loop_result.files # {} => fin.result = "success"))
            /\ (loop_ok /\ loop_result.files = {} => exit_code = 0)
            /\ (loop_result.returned /\ ~loop_result.ok =>
                    exit_code # 0 /\ last_significant_error = loop_result.err)
            /\ (fin.result = "failure" =>
                    exit_code # 0 /\ Truthy(last_significant_error))

\* ======================= embedding/core/fragment_processor.py ==============
\* A record of the store: {"embedding": vec, "code_digest": digest} under the
\* key id.  A dict is the sequence of its items in insertion order.
\* The manifest's code_digest of each fragment; B has none (None).
CurrentDigest(f) ==
    CASE f = "A" -> <<"digest", 1>>
      [] f = "B" -> None
      [] f = "C" -> <<"digest", 3>>

\* The digest of an older version of a fragment's text.
StaleDigest == <<"digest", 0>>

\* The vector the gateway returned for fragment f in update number run
\* (run 0: before the first update); never empty.
Vector(f, run) == <<f, run>>

\* dict.get(key): the entry, or NoEntry for Python's None.
NoEntry == [id |-> "none", digest |-> None, vec |-> <<>>]

DictIds(d) == {d[i].id : i \in DOMAIN d}

DictGet(d, f) ==
    IF f \in DictIds(d) THEN d[CHOOSE i \in DOMAIN d : d[i].id = f] ELSE NoEntry

\* d[key] = entry: an existing key keeps its position, a new key is last.
DictSet(d, e) ==
    IF e.id \in DictIds(d)
    THEN [i \in DOMAIN d |-> IF d[i].id = e.id THEN e ELSE d[i]]
    ELSE Append(d, e)

\* json.dump(dict, f, indent=None) and json.load: the text lists the keys in
\* the dict's insertion order and load restores that order.
JsonDump(d) == <<"json", d>>

JsonLoad(text) == text[2]

\* Lines 171-184: the prior store, {} when the file is missing or unreadable.
LoadOldEmbeddings(file) ==
    IF file \in {Absent, Corrupt} THEN <<>> ELSE JsonLoad(file)

\* Lines 197-200: the prior entry exists, carries the current digest and a
\* non-empty embedding.
CanReuseIgnoringDigest(old_entry, current_code_digest) ==
    old_entry # NoEntry /\ old_entry.vec # <<>>

CanReuse(old_entry, current_code_digest) ==
    /\ old_entry # NoEntry
    /\ old_entry.digest = current_code_digest
    /\ old_entry.vec # <<>>

\* Line 194, old_embeddings_data.get(frag_id): the value json.load gave has
\* a method get if it is a dict; a list has none and the call raises
\* AttributeError, outside every try of update_fragment_embeddings_async.
HasGet(file) == file # EmptyJsonList

\* Line 186: the new store starts empty.
InitialUpdatedDataKeepsOld(old) == old

InitialUpdatedData(old) == <<>>

\* The for loop of lines 192-214 from fragment i on.  acc = [updated, tasks]:
\* updated_embeddings_data and embedding_tasks.  The text to embed is never
\* empty (_get_text_for_fragment_embedding always has a first part).
RECURSIVE ScanFragments(_, _, _, _)
ScanFragments(frags, i, old, acc) ==
    IF i > Len(frags) THEN acc
    ELSE LET frag_id == frags[i]
             old_entry == DictGet(old, frag_id)
         IN  IF CanReuse(old_entry, CurrentDigest(frag_id))
             THEN ScanFragments(frags, i + 1, old,
                      [acc EXCEPT !.updated = DictSet(@, old_entry)])
             ELSE ScanFragments(frags, i + 1, old,
                      [acc EXCEPT !.tasks = Append(@, frag_id)])

\* _process_single_fragment_for_embedding (lines 126-131) and the handling
\* of one gathered result (lines 239-248): a task that returned a vector
\* adds its entry, one that returned None adds nothing.
\* outcome: "ok" or "none".
CollectResultKeepsStale(updated, old, frag_id, outcome, run) ==
    IF outcome = "ok"
    THEN DictSet(updated, [id |-> frag_id, digest |-> CurrentDigest(frag_id),
                           vec |-> Vector(frag_id, run)])
    ELSE IF DictGet(old, frag_id) # NoEntry THEN DictSet(updated, DictGet(old, frag_id))
    ELSE updated

CollectResult(updated, old, frag_id, outcome, run) ==
    IF outcome = "ok"
    THEN DictSet(updated, [id |-> frag_id, digest |-> CurrentDigest(frag_id),
                           vec |-> Vector(frag_id, run)])
    ELSE updated

\* The for loop of lines 233-248 over the gathered results, in task order.
RECURSIVE CollectResults(_, _, _, _, _, _)
CollectResults(tasks, i, results, updated, old, run) ==
    IF i > Len(tasks) THEN updated
    ELSE CollectResults(tasks, i + 1, results,
             CollectResult(updated, old, tasks[i], results[tasks[i]], run), old, run)

\* Line 253: nothing reused or generated although the manifest has fragments.
NothingToSaveNever(updated, fragments) == FALSE

NothingToSave(updated, fragments) == updated = <<>> /\ fragments # <<>>

\* Sequences of at most n records with distinct ids.
DistinctIdSeqs(S, n) ==
    {d \in SeqsUpTo(S, n) : \A i, j \in DOMAIN d : d[i].id = d[j].id => i = j}

\* The manifests: at most MaxFragments fragments, in any file order.
Inventories ==
    {[i \in DOMAIN d |-> d[i].id] :
        d \in DistinctIdSeqs([id : FragIds], MaxFragments)}

\* The order of the ids in which the prior store lists its keys.
IdRank(f) == CASE f = "A" -> 1 [] f = "B" -> 2 [] f = "C" -> 3

\* The store files a previous update can have left: records with the
\* current or an older digest and a non-empty vector (only such records are
\* ever written, lines 128 and 201), or no file, or a file cut short by a
\* failed write.  The scan reads the prior store by key only, so its key
\* order is fixed here.
PriorStores ==
    {Absent, Corrupt} \cup
    {JsonDump(d) : d \in
        {d \in DistinctIdSeqs([id : FragIds, digest : {StaleDigest} \cup
                                  {CurrentDigest(f) : f \in FragIds},
                               vec : {Vector(f, 0) : f \in FragIds}], MaxFragments) :
            /\ \A i \in DOMAIN d : /\ d[i].vec = Vector(d[i].id, 0)
                                   /\ d[i].digest \in {StaleDigest, CurrentDigest(d[i].id)}
            /\ \A i, j \in DOMAIN d : i < j => IdRank(d[i].id) < IdRank(d[j].id)}}

\* Store files no update has written: none, an unparsable one, and one that
\* parses to a value that is no mapping.
UnusableStores == {Absent, Corrupt, EmptyJsonList}

\* The modification pipeline is not running.
PipelineIdle ==
    /\ pc = "not_running"
    /\ stop_after = "none"
    /\ max_retries = 0
    /\ target = [p \in Paths |-> "absent"]
    /\ workspace = [p \in Paths |-> "absent"]
    /\ backups = [b \in BakNames |-> "absent"]
    /\ plan_steps_list = <<>>
    /\ build_attempt_number = 0
    /\ last_build_error_output_for_agents = None
    /\ overall_execution_successful = FALSE
    /\ all_files_modified_in_workspace_during_loop = {}
    /\ modified_files_in_current_attempt = {}
    /\ current_attempt_all_steps_succeeded_flawlessly = TRUE
    /\ step_idx = 0
    /\ loop_result = NoResult
    /\ execution_successful = FALSE
    /\ last_significant_error = None
    /\ apply_plan_file = NoFile
    /\ exit_code = -1
    /\ fin = FinIdle
    /\ h = [target0 |-> target]

EmbedStart(stores) ==
    /\ UtilIdle
    /\ PipelineIdle
    /\ SelectorIdle
    /\ StepIdle
    /\ epc = "idle"
    /\ CONCURRENT_EMBEDDING_TASKS \in 1..MaxConc
    /\ current_fragments \in Inventories
    /\ store_file \in stores
    /\ old_embeddings_data = <<>>
    /\ updated_embeddings_data = <<>>
    /\ embedding_tasks = <<>>
    /\ task_state = [f \in FragIds |-> "none"]
    /\ task_result = [f \in FragIds |-> "none"]
    /\ wrapper_state = [f \in FragIds |-> "none"]
    /\ ready = <<>>
    /\ semaphore = [value |-> 0, waiters |-> <<>>]
    /\ update_result = "none"
    /\ eh = NoHistory

EmbedInit == EmbedStart(PriorStores)

TaskIds == {embedding_tasks[i] : i \in DOMAIN embedding_tasks}

\* The gateway calls in flight: started and not yet completed.
InFlight == {f \in FragIds : task_state[f] = "calling"}

\* Lines 142-230, up to the first suspension of the coroutine (or to the
\* final save when no task was created): the manifest and the prior store
\* are read, the fragments are sorted into reused and to-embed, one task per
\* fragment to embed is created (line 211), and gather() is awaited on one
\* wrapper per task.  create_task schedules each task on the event loop at
\* once, before the wrappers gather() schedules.
UpdateStart(manifest_ok, unlink_ok) ==
    /\ epc = "idle"
    /\ LET old  == LoadOldEmbeddings(store_file)
           scan == ScanFragments(current_fragments, 1, old,
                       [updated |-> InitialUpdatedData(old), tasks |-> <<>>])
           n    == Len(scan.tasks)
           began == [eh EXCEPT !.run = @ + 1, !.store0 = store_file, !.called = {},
                               !.io_failed = FALSE, !.manifest_read = manifest_ok,
                               !.max_in_flight = 0, !.completed = <<>>]
       IN  IF ~manifest_ok
           THEN /\ unlink_ok
                /\ update_result' = "false"
                /\ epc' = "returned"
                /\ eh' = began
                /\ UNCHANGED <<store_file, old_embeddings_data, updated_embeddings_data,
                               embedding_tasks, task_state, wrapper_state, ready, semaphore>>
           ELSE IF current_fragments = <<>>
           THEN /\ (store_file = Absent => unlink_ok)
                /\ store_file' = IF unlink_ok THEN Absent ELSE store_file
                /\ update_result' = "true"
                /\ epc' = "returned"
                /\ eh' = [began EXCEPT !.io_failed = ~unlink_ok]
                /\ UNCHANGED <<old_embeddings_data, updated_embeddings_data,
                               embedding_tasks, task_state, wrapper_state, ready, semaphore>>
           ELSE IF ~HasGet(store_file)
           THEN /\ unlink_ok
                /\ update_result' = "raised"
                /\ epc' = "returned"
                /\ eh' = began
                /\ UNCHANGED <<store_file, old_embeddings_data, updated_embeddings_data,
                               embedding_tasks, task_state, wrapper_state, ready, semaphore>>
           ELSE /\ unlink_ok
                /\ old_embeddings_data' = old
                /\ updated_embeddings_data' = scan.updated
                /\ embedding_tasks' = scan.tasks
                /\ task_state' = [f \in FragIds |->
                       IF \E i \in 1..n : scan.tasks[i] = f THEN "created" ELSE "none"]
                /\ wrapper_state' = [f \in FragIds |->
                       IF \E i \in 1..n : scan.tasks[i] = f THEN "created" ELSE "none"]
                /\ ready' = [i \in 1..n |-> <<"task", scan.tasks[i]>>]
                             \o [i \in 1..n |-> <<"wrapper", scan.tasks[i]>>]
                /\ semaphore' = [value |-> IF n = 0 THEN 0 ELSE CONCURRENT_EMBEDDING_TASKS,
                                 waiters |-> <<>>]
                /\ epc' = IF n = 0 THEN "save" ELSE "gather"
                /\ eh' = began
                /\ UNCHANGED <<store_file, update_result>>
    /\ task_result' = [f \in FragIds |-> "none"]
    /\ UNCHANGED <<pipev, selv, stepv, utilv, CONCURRENT_EMBEDDING_TASKS, current_fragments>>

\* The event loop runs a created task: _process_single_fragment_for_embedding
\* runs up to 'await litellm.aembedding(...)' (embedder_client.py line 70):
\* the gateway call is in flight.  The task does not touch the semaphore.
RunTask(f) ==
    /\ epc = "gather"
    /\ ready # <<>> /\ Head(ready) = <<"task", f>>
    /\ ready' = Tail(ready)
    /\ task_state' = [task_state EXCEPT ![f] = "calling"]
    /\ eh' = [eh EXCEPT !.called = @ \cup {f},
                        !.max_in_flight = IF Cardinality(InFlight) + 1 > @
                                          THEN Cardinality(InFlight) + 1 ELSE @]
    /\ UNCHANGED <<pipev, selv, stepv, utilv, epc, CONCURRENT_EMBEDDING_TASKS, current_fragments, store_file,
                   old_embeddings_data, updated_embeddings_data, embedding_tasks,
                   task_result, wrapper_state, semaphore, update_result>>

\* semaphore.release() at the end of 'async with': the value goes up and the
\* first waiter is woken.
Release(sem) == [value |-> sem.value + 1, waiters |-> IF sem.waiters = <<>> THEN <<>>
                                                      ELSE Tail(sem.waiters)]

Woken(sem) == IF sem.waiters = <<>> THEN <<>> ELSE << <<"wrapper", Head(sem.waiters)>> >>

\* The event loop runs run_with_semaphore_wrapper (lines 224-226): it
\* acquires the semaphore or queues for it, then awaits the task created
\* earlier, and releases the semaphore once the task is done.
RunWrapper(f) ==
    /\ epc = "gather"
    /\ ready # <<>> /\ Head(ready) = <<"wrapper", f>>
    /\ IF wrapper_state[f] \in {"created", "acquiring"}
       THEN IF semaphore.value > 0
            THEN LET held == [semaphore EXCEPT !.value = @ - 1]
                 IN  IF task_state[f] = "done"
                     THEN /\ semaphore' = Release(held)
                          /\ ready' = Tail(ready) \o Woken(held)
                          /\ wrapper_state' = [wrapper_state EXCEPT ![f] = "done"]
                     ELSE /\ semaphore' = held
                          /\ ready' = Tail(ready)
                          /\ wrapper_state' = [wrapper_state EXCEPT ![f] = "awaiting"]
            ELSE /\ semaphore' = [semaphore EXCEPT !.waiters = Append(@, f)]
                 /\ ready' = Tail(ready)
                 /\ wrapper_state' = [wrapper_state EXCEPT ![f] = "acquiring"]
       ELSE /\ wrapper_state[f] = "awaiting" /\ task_state[f] = "done"
            /\ semaphore' = Release(semaphore)
            /\ ready' = Tail(ready) \o Woken(semaphore)
            /\ wrapper_state' = [wrapper_state EXCEPT ![f] = "done"]
    /\ UNCHANGED <<pipev, selv, stepv, utilv, epc, CONCURRENT_EMBEDDING_TASKS, current_fragments, store_file,
                   old_embeddings_data, updated_embeddings_data, embedding_tasks,
                   task_state, task_result, update_result, eh>>

\* What generate_embedding_for_text_async returns (embedder_client.py lines
\* 70-79): the vector, or None when the response has no embedding or when
\* litellm.aembedding raises (every exception is caught and logged there).
GatewayOutcomes == {"ok", "none"}

\* A gateway call in flight completes; the wrapper awaiting the task is made
\* runnable.  The event loop polls for I/O only after it has run the
\* callbacks scheduled before.
CallCompletes(f, outcome) ==
    /\ epc = "gather"
    /\ task_state[f] = "calling"
    /\ \A g \in TaskIds : task_state[g] # "created" /\ wrapper_state[g] # "created"
    /\ task_state' = [task_state EXCEPT ![f] = "done"]
    /\ task_result' = [task_result EXCEPT ![f] = outcome]
    /\ ready' = IF wrapper_state[f] = "awaiting"
                THEN Append(ready, <<"wrapper", f>>) ELSE ready
    /\ eh' = [eh EXCEPT !.completed = Append(@, f)]
    /\ UNCHANGED <<pipev, selv, stepv, utilv, epc, CONCURRENT_EMBEDDING_TASKS, current_fragments, store_file,
                   old_embeddings_data, updated_embeddings_data, embedding_tasks,
                   wrapper_state, semaphore, update_result>>

\* asyncio.gather (line 230): the list of results is in the order of the
\* awaitables passed, the order of embedding_tasks, whatever the order
\* 'completed' in which the calls finished.
GatherAsCompleted(tasks, completed) == completed

Gather(tasks, completed) == tasks

\* gather() returns when every wrapper has finished; lines 232-250 then go
\* through the results in task order.
GatherDone ==
    /\ epc = "gather"
    /\ \A f \in TaskIds : wrapper_state[f] = "done"
    /\ updated_embeddings_data' =
           CollectResults(Gather(embedding_tasks, eh.completed), 1, task_result,
                          updated_embeddings_data, old_embeddings_data, eh.run)
    /\ epc' = "save"
    /\ UNCHANGED <<pipev, selv, stepv, utilv, CONCURRENT_EMBEDDING_TASKS, current_fragments, store_file,
                   old_embeddings_data, embedding_tasks, task_state, task_result,
                   wrapper_state, ready, semaphore, update_result, eh>>

\* Lines 252-271: the final save.  write: "ok"; "refused" (mkdir or open
\* raises, the file is as before); "cut" (json.dump raises after open(.., 'w')
\* emptied the file, which is then not parsable).
SaveStore(write) ==
    /\ epc = "save"
    /\ IF NothingToSave(updated_embeddings_data, current_fragments)
       THEN /\ write = "ok"
            /\ update_result' = "false"
            /\ eh' = [eh EXCEPT !.completed = <<>>]
            /\ UNCHANGED store_file
       ELSE /\ store_file' = CASE write = "ok"      -> JsonDump(updated_embeddings_data)
                               [] write = "refused" -> store_file
                               [] write = "cut"     -> Corrupt
            /\ update_result' = IF write = "ok" THEN "true" ELSE "false"
            /\ eh' = [eh EXCEPT !.io_failed = write # "ok", !.completed = <<>>]
    /\ epc' = "returned"
    /\ UNCHANGED <<pipev, selv, stepv, utilv, CONCURRENT_EMBEDDING_TASKS, current_fragments,
                   old_embeddings_data, updated_embeddings_data, embedding_tasks,
                   task_state, task_result, wrapper_state, ready, semaphore>>

\* The tasks of the update whose gateway call gave no vector.
FailedTasks == {f \in TaskIds : task_result[f] # "ok"}

\* embedding/main.py line 72, faiss_selector.py line 93: the update is called
\* again later, on the same manifest, with fresh locals.
UpdateAgain ==
    /\ epc = "returned"
    /\ eh.run < MaxRuns
    /\ epc' = "idle"
    /\ old_embeddings_data' = <<>>
    /\ updated_embeddings_data' = <<>>
    /\ embedding_tasks' = <<>>
    /\ task_state' = [f \in FragIds |-> "none"]
    /\ task_result' = [f \in FragIds |-> "none"]
    /\ wrapper_state' = [f \in FragIds |-> "none"]
    /\ ready' = <<>>
    /\ semaphore' = [value |-> 0, waiters |-> <<>>]
    /\ update_result' = "none"
    /\ eh' = [eh EXCEPT !.prev = [ran |-> TRUE, result |-> update_result,
                                  store_after |-> store_file, failed |-> FailedTasks,
                                  io_failed |-> eh.io_failed,
                                  manifest_read |-> eh.manifest_read]]
    /\ UNCHANGED <<pipev, selv, stepv, utilv, CONCURRENT_EMBEDDING_TASKS, current_fragments, store_file>>

EmbedNext ==
    \/ \E manifest_ok \in BOOLEAN, unlink_ok \in BOOLEAN : UpdateStart(manifest_ok, unlink_ok)
    \/ \E f \in FragIds : RunTask(f)
    \/ \E f \in FragIds : RunWrapper(f)
    \/ \E f \in FragIds, outcome \in GatewayOutcomes : CallCompletes(f, outcome)
    \/ GatherDone
    \/ \E write \in {"ok", "refused", "cut"} : SaveStore(write)
    \/ UpdateAgain

EmbedSpec == EmbedInit /\ [][EmbedNext]_vars

\* The update started on a store file that no update has written.
UnusableStoreInit == EmbedStart(UnusableStores)

UnusableStoreSpec == UnusableStoreInit /\ [][EmbedNext]_vars

\* The paths listed by the apply-plan finalize_execution was called with.
PlannedPaths ==
    IF apply_plan_file \in CorruptPlans THEN {}
    ELSE {apply_plan_file[i] : i \in DOMAIN apply_plan_file}

\* The copy loop of finalize_execution has gone through the whole plan.
CopyLoopOver == pc \in {"finalize_end", "finalize_return", "final_exit", "exit"}

\* C13: after finalize_execution returns success for a plan listing paths P,
\* every path of P is in the target with the workspace content, the backup
\* directory holds the original content of exactly the paths of P that were
\* in the target before, and target files outside P are unchanged.
C13_FinalizePostcondition ==
    fin.result = "success" =>
        /\ \A p \in PlannedPaths :
              workspace[p] # "absent" /\ target[p] = workspace[p]
        /\ \A p \in Paths :
              backups[BakName(p)] =
                  IF p \in PlannedPaths THEN h.target0[p] ELSE "absent"
        /\ \A p \in Paths \ PlannedPaths : target[p] = h.target0[p]

\* C14: when the copy loop is over, every planned path with a workspace
\* source whose copy did not fail is in the target with the workspace
\* content, wherever in the plan a missing source or a failed copy occurred;
\* the failed paths keep their content, and the call returns success iff
\* every planned path was copied.
C14_BestEffortCopy ==
    fin.paths # <<>> /\ CopyLoopOver =>
        LET copied == {p \in PlannedPaths :
                          workspace[p] # "absent" /\ p \notin h.copy_failed}
        IN  /\ fin.i = Len(fin.paths) + 1
            /\ \A p \in copied : target[p] = workspace[p]
            /\ \A p \in PlannedPaths \ copied : target[p] = h.target0[p]
            /\ fin.copied = Cardinality(copied)
            /\ (fin.result = "success" <=>
                    pc # "finalize_end" /\ copied = PlannedPaths)
            /\ (fin.result = "failure" <=>
                    pc # "finalize_end" /\ copied # PlannedPaths)

\* A missing source for the first planned path, then a copy that succeeds.
C14_Witness ==
    /\ CopyLoopOver /\ fin.result = "failure"
    /\ fin.paths = PathOrder
    /\ workspace["pkg/x.go"] = "absent" /\ h.target0["pkg/x.go"] = "orig"
    /\ h.copy_failed = {"pkg/x.go"}
    /\ h.target0["views/v.templ"] = "absent" /\ target["views/v.templ"] = "new"

\* ------------------------------------- properties of the embedding update
\* The update returned, and so did the update before it, both having read
\* the manifest and done their file operations without an I/O error.
TwoCleanRuns ==
    /\ epc = "returned" /\ eh.prev.ran
    /\ eh.prev.manifest_read /\ ~eh.prev.io_failed
    /\ eh.manifest_read /\ ~eh.io_failed

\* The records of a store file, whatever their key order.
StoreRecords(file) ==
    LET d == LoadOldEmbeddings(file) IN {d[i] : i \in DOMAIN d}

\* C15: when an update in which every embedding call succeeded is followed
\* by a second update on the same manifest, the second update makes no
\* embedding call and the store file it leaves is identical to the file the
\* first left: same records, same vectors and digests, same key order.
C15_SecondRunIsByteIdentical ==
    TwoCleanRuns /\ eh.prev.failed = {} =>
        /\ eh.called = {}
        /\ store_file = eh.prev.store_after

\* The ids of the manifest.
InventoryIds == {current_fragments[i] : i \in DOMAIN current_fragments}

\* The store as it was when the current update started.
PriorStore == LoadOldEmbeddings(eh.store0)

\* The prior store has a record for f whose digest is f's current digest.
HasMatchingRecord(f) ==
    \E i \in DOMAIN PriorStore :
        PriorStore[i].id = f /\ PriorStore[i].digest = CurrentDigest(f)

\* The update has read a non-empty manifest and sorted its fragments.
Scanned ==
    epc \in {"gather", "save", "returned"} /\ eh.manifest_read /\ current_fragments # <<>>

\* C16: a fragment is handed to the embedding gateway iff the prior store
\* has no record for its id with the fragment's current digest; a fragment
\* with such a record is copied forward unchanged and never embedded.
C16_EmbedIffNoMatchingRecord ==
    Scanned =>
        /\ TaskIds = {f \in InventoryIds : ~HasMatchingRecord(f)}
        /\ eh.called \subseteq TaskIds
        /\ (epc \in {"save", "returned"} => eh.called = TaskIds)
        /\ \A f \in InventoryIds :
              HasMatchingRecord(f) =>
                  DictGet(updated_embeddings_data, f) = DictGet(PriorStore, f)

C16_Witness ==
    /\ epc = "save"
    /\ eh.called = {"A"}
    /\ DictGet(PriorStore, "A") # NoEntry
    /\ HasMatchingRecord("B")
    /\ current_fragments = <<"A", "B">>

\* C17: after an update that returned true, in which every embedding call
\* succeeded and the store file was written (or removed, for an empty
\* manifest), the store has exactly the manifest's ids, each record with the
\* fragment's current digest: the prior vector where the prior digest
\* matched, a vector generated by this update otherwise.
C17_StoreMatchesInventory ==
    epc = "returned" /\ update_result = "true" /\ FailedTasks = {} /\ ~eh.io_failed =>
        LET new == LoadOldEmbeddings(store_file)
        IN  /\ store_file # Corrupt
            /\ DictIds(new) = InventoryIds
            /\ Len(new) = Len(current_fragments)
            /\ \A f \in InventoryIds :
                  /\ DictGet(new, f).digest = CurrentDigest(f)
                  /\ DictGet(new, f).vec =
                        IF HasMatchingRecord(f) THEN DictGet(PriorStore, f).vec
                        ELSE Vector(f, eh.run)

\* A stale record replaced, a new fragment added, an orphan record dropped.
C17_Witness ==
    /\ epc = "returned" /\ update_result = "true" /\ FailedTasks = {}
    /\ current_fragments = <<"A", "B">>
    /\ DictGet(PriorStore, "A") # NoEntry /\ ~HasMatchingRecord("A")
    /\ DictGet(PriorStore, "C") # NoEntry
    /\ DictIds(LoadOldEmbeddings(store_file)) = {"A", "B"}

\* C18: when some but not all embedding calls of an update fail and the
\* store file is written, the update returns true and the file holds exactly
\* the reused records and the generated ones; a failed fragment has no
\* record in it, and the next update on the manifest schedules it again.
C18_PartialFailureIsOmitted ==
    /\ ( epc = "returned" /\ eh.manifest_read /\ ~eh.io_failed
           /\ FailedTasks # {} /\ FailedTasks # TaskIds
         => /\ update_result = "true"
            /\ StoreRecords(store_file) =
                  {DictGet(PriorStore, f) : f \in {g \in InventoryIds : HasMatchingRecord(g)}}
                  \cup {[id |-> f, digest |-> CurrentDigest(f), vec |-> Vector(f, eh.run)] :
                            f \in TaskIds \ FailedTasks}
            /\ \A f \in FailedTasks : f \notin DictIds(LoadOldEmbeddings(store_file)) )
    /\ ( Scanned /\ eh.prev.ran => eh.prev.failed \subseteq TaskIds )

C18_Witness ==
    /\ epc = "gather"
    /\ eh.prev.ran /\ eh.prev.result = "true" /\ eh.prev.failed = {"A"}
    /\ current_fragments = <<"A", "B">>
    /\ PriorStore # <<>> /\ DictIds(PriorStore) = {"B"}
    /\ eh.called = {"A"}

\* C19: the update returns false only when the manifest cannot be read, when
\* the manifest has fragments and nothing was reused or generated, or when
\* the file cannot be written; in the second case the store file is left as
\* it was; with at least one record and a successful write it returns true.
C19_FalseOnlyOnStructuralFailure ==
    epc = "returned" =>
        /\ (update_result = "false" =>
                \/ ~eh.manifest_read
                \/ current_fragments # <<>> /\ updated_embeddings_data = <<>>
                \/ eh.io_failed)
        /\ (eh.manifest_read /\ current_fragments # <<>> /\ updated_embeddings_data = <<>>
                => update_result = "false" /\ store_file = eh.store0)
        /\ (eh.manifest_read /\ updated_embeddings_data # <<>> /\ ~eh.io_failed
                => update_result = "true")

C19_Witness ==
    /\ epc = "returned" /\ update_result = "false"
    /\ Len(embedding_tasks) = 2 /\ FailedTasks = TaskIds
    /\ Len(PriorStore) = 2
    /\ store_file = eh.store0

\* C20: the number of gateway calls in flight never exceeds
\* CONCURRENT_EMBEDDING_TASKS.
C20_InFlightWithinLimit ==
    Cardinality(InFlight) <= CONCURRENT_EMBEDDING_TASKS

\* --------------------------------- embedding/core/faiss_selector.py
\* An entry of the store that the index builder skips:
\*   MissingEmbedding : the entry is not a dict or has no "embedding" key (line 133)
\*   InvalidVector    : "embedding" is not a list of numbers            (line 135)
MissingEmbedding == <<"missing", 0>>
InvalidVector    == <<"invalid", 0>>

\* The floats of the vector the gateway returns for a fragment's text: A and
\* B have one coordinate, C has two (a store written with another embedding
\* model).  The values keep every stored vector at a different distance from
\* each query, so that the order of the neighbours is determined.
Floats(vec) ==
    CASE vec[1] = "A" -> <<0>>
      [] vec[1] = "B" -> <<3>>
      [] vec[1] = "C" -> <<1, 1>>

\* What generate_embedding_for_text_sync returns for the request: None
\* (empty text, gateway error, unexpected response) or the request's vector.
QueryEmbeddings == {<<>>, <<0>>, <<1>>, <<1, 0>>}

\* The similarity_threshold argument: None, or a maximal distance t[2].
Thresholds == {<<"t", 1>>, <<"t", 4>>}

\* The top_k argument.
TopKs == {-1, 0, 1, MaxFragments + 1}

\* The error messages find_relevant_fragments returns (lines 202-238).
ErrLoad       == <<"load_failed", 0>>
ErrNotInit    == <<"not_initialised", 0>>
ErrQuery      == <<"query_embedding_failed", 0>>
ErrIndexEmpty == <<"index_empty", 0>>
ErrKZero      == <<"k_zero", 0>>
ErrSearch     == <<"search_error", 0>>

\* Squared Euclidean distance of two vectors of the same dimension.
RECURSIVE L2sq(_, _)
L2sq(a, b) ==
    IF a = <<>> THEN 0
    ELSE (a[1] - b[1]) * (a[1] - b[1]) + L2sq(Tail(a), Tail(b))

\* dict.get(key) on a dict given as its items <<key, value>>: the value, or
\* "" standing for None (both are falsy at line 258).
MapGet(items, key) ==
    IF \E i \in DOMAIN items : items[i][1] = key
    THEN items[CHOOSE i \in DOMAIN items : items[i][1] = key][2]
    ELSE ""

\* Lines 132-141: the entries that pass both checks, in the file's order.
ValidEntries(data) ==
    SelectSeq(data, LAMBDA e : e.vec \notin {MissingEmbedding, InvalidVector})

\* Line 169: {frag_id: i for i, frag_id in enumerate(ids)}.
IdToInternalIndexMap(ids) ==
    [is_none |-> FALSE, items |-> [i \in DOMAIN ids |-> <<ids[i], i - 1>>]]

\* Line 170: {i: frag_id for i, frag_id in enumerate(ids)}.
InternalIndexToIdMapFromOne(ids) ==
    [is_none |-> FALSE, items |-> [i \in DOMAIN ids |-> <<i, ids[i]>>]]

InternalIndexToIdMap(ids) ==
    [is_none |-> FALSE, items |-> [i \in DOMAIN ids |-> <<i - 1, ids[i]>>]]

\* faiss.IndexFlatL2(1) with nothing added, and two empty dicts (lines
\* 124-126, 145-147).
EmptyIndex == [is_none |-> FALSE, d |-> 1, vectors |-> <<>>]
EmptyMap   == [is_none |-> FALSE, items |-> <<>>]

\* Lines 116-182: the try block, on the text of the store file.  The result
\* is the three cache values and the returned flag.  json.load raising, or
\* np.vstack raising on vectors of different lengths, lands in the last
\* except clause, which resets the cache.
BuildIndex(file) ==
    IF file = Corrupt
    THEN [ok |-> FALSE, index |-> NoneIndex, id_map |-> NoneMap, idx_map |-> NoneMap]
    ELSE LET data  == JsonLoad(file)
             valid == ValidEntries(data)
             ids   == [i \in DOMAIN valid |-> valid[i].id]
             vecs  == [i \in DOMAIN valid |-> Floats(valid[i].vec)]
         IN  IF data = <<>> \/ valid = <<>>
             THEN [ok |-> TRUE, index |-> EmptyIndex, id_map |-> EmptyMap,
                   idx_map |-> EmptyMap]
             ELSE IF \E i, j \in DOMAIN vecs : Len(vecs[i]) # Len(vecs[j])
             THEN [ok |-> FALSE, index |-> NoneIndex, id_map |-> NoneMap,
                   idx_map |-> NoneMap]
             ELSE [ok |-> TRUE,
                   index |-> [is_none |-> FALSE, d |-> Len(vecs[1]), vectors |-> vecs],
                   id_map |-> IdToInternalIndexMap(ids),
                   idx_map |-> InternalIndexToIdMap(ids)]

\* fragment_processor.update_fragment_embeddings_async run to its end by
\* asyncio.run (line 93) when no store file exists: the manifest is read,
\* every fragment is embedded (there is nothing to reuse), the results are
\* collected and the store is written.  results: the gateway's outcome per
\* fragment; write: as in SaveStore.  Gives the returned flag, the store
\* file afterwards and the number of gateway calls.
BootstrapUpdate(manifest, results, write) ==
    IF manifest \in {Absent, Corrupt}
    THEN [ok |-> FALSE, file |-> Absent, calls |-> 0]
    ELSE IF manifest = <<>>
    THEN [ok |-> TRUE, file |-> Absent, calls |-> 0]
    ELSE LET old     == LoadOldEmbeddings(Absent)
             scan    == ScanFragments(manifest, 1, old,
                            [updated |-> InitialUpdatedData(old), tasks |-> <<>>])
             updated == CollectResults(scan.tasks, 1, results, scan.updated, old, 1)
         IN  IF NothingToSave(updated, manifest)
             THEN [ok |-> FALSE, file |-> Absent, calls |-> Len(scan.tasks)]
             ELSE [ok    |-> write = "ok",
                   file  |-> CASE write = "ok"      -> JsonDump(updated)
                               [] write = "refused" -> Absent
                               [] write = "cut"     -> Corrupt,
                   calls |-> Len(scan.tasks)]

\* No update was run.
NoUpdate == [ok |-> FALSE, file |-> Absent, calls |-> 0]

\* _load_embeddings_and_build_index(force_reload, attempt_generation_if_missing)
\* (lines 49-182) in the current state.  manifest is the manifest file as
\* line 82 and the update find it, u is what the update does if it is called.  Gives the returned flag, the cache and the store file
\* afterwards, and what was done on the way.
LoadEmbeddingsAndBuildIndex(force_reload, attempt_generation_if_missing, manifest, u) ==
    LET cached == /\ ~faiss_index_cache.is_none
                  /\ ~id_to_internal_index_map_cache.is_none
                  /\ ~internal_index_to_id_map_cache.is_none
        asis(ok, file, updates) ==
            [ok |-> ok, index |-> faiss_index_cache,
             id_map |-> id_to_internal_index_map_cache,
             idx_map |-> internal_index_to_id_map_cache,
             file |-> file, updates |-> updates, update_ok |-> updates = 1 /\ u.ok,
             calls |-> IF updates = 1 THEN u.calls ELSE 0, read |-> FALSE]
        built(file, updates) ==
            LET b == BuildIndex(file)
            IN  [ok |-> b.ok, index |-> b.index, id_map |-> b.id_map,
                 idx_map |-> b.idx_map, file |-> file, updates |-> updates,
                 update_ok |-> updates = 1,
                 calls |-> IF updates = 1 THEN u.calls ELSE 0, read |-> TRUE]
    IN  IF cached /\ ~force_reload THEN asis(TRUE, EMBEDDINGS_FILE, 0)
        ELSE IF EMBEDDINGS_FILE = Absent
        THEN IF ~attempt_generation_if_missing THEN asis(FALSE, EMBEDDINGS_FILE, 0)
             ELSE IF manifest = Absent THEN asis(FALSE, EMBEDDINGS_FILE, 0)
             ELSE IF ~u.ok THEN asis(FALSE, u.file, 1)
             ELSE IF u.file = Absent THEN asis(FALSE, u.file, 1)
             ELSE built(u.file, 1)
        ELSE built(EMBEDDINGS_FILE, 0)

\* IndexFlatL2.search(query, k) for 1 <= k <= ntotal: the positions
\* (0-based) of the k stored vectors nearest to the query and their squared
\* distances, nearest first.
Nearest(index, query, k) ==
    LET n == Len(index.vectors)
        dist(i) == L2sq(index.vectors[i], query)
        before(i) == {j \in 1..n : dist(j) < dist(i) \/ (dist(j) = dist(i) /\ j < i)}
        at(m) == CHOOSE i \in 1..n : Cardinality(before(i)) = m - 1
    IN  [m \in 1..k |-> [pos |-> at(m) - 1, dist |-> dist(at(m))]]

\* Line 227.
ActualK(top_k, ntotal) == IF top_k < ntotal THEN top_k ELSE ntotal

\* Line 260: the neighbour is farther than the threshold allows.
ExceedsThresholdInverted(distance_value, similarity_threshold) ==
    similarity_threshold # None /\ distance_value < similarity_threshold[2]

ExceedsThreshold(distance_value, similarity_threshold) ==
    similarity_threshold # None /\ distance_value > similarity_threshold[2]

\* Line 262: a neighbour beyond the threshold adds nothing to either list.
DropNeighbourKeepsScore(acc, distance_value) ==
    [acc EXCEPT !.dists = Append(@, distance_value)]

DropNeighbour(acc, distance_value) == acc

\* The for loop of lines 247-269 over the neighbours, from neighbour i on.
RECURSIVE FilterNeighbours(_, _, _, _, _)
FilterNeighbours(found, i, idx_items, similarity_threshold, acc) ==
    IF i > Len(found) THEN acc
    ELSE LET fragment_id == MapGet(idx_items, found[i].pos)
         IN  IF fragment_id = ""
             THEN FilterNeighbours(found, i + 1, idx_items, similarity_threshold, acc)
             ELSE IF ExceedsThreshold(found[i].dist, similarity_threshold)
             THEN FilterNeighbours(found, i + 1, idx_items, similarity_threshold,
                      DropNeighbour(acc, found[i].dist))
             ELSE FilterNeighbours(found, i + 1, idx_items, similarity_threshold,
                      [ids   |-> Append(acc.ids, fragment_id),
                       dists |-> Append(acc.dists, found[i].dist)])

\* Lines 204-274 of find_relevant_fragments, once the load has been dealt
\* with: the request is embedded, the index is searched, the neighbours are
\* filtered.  search() raises on a query of another dimension than the
\* index and on k < 1; both are caught at line 236.
SearchIndex(index, idx_map, query, top_k, similarity_threshold) ==
    LET fail(e) == [returned |-> TRUE, ids |-> <<>>, dists |-> <<>>, err |-> e]
        ntotal  == Len(index.vectors)
        k       == ActualK(top_k, ntotal)
    IN  IF index.is_none \/ idx_map.is_none THEN fail(ErrNotInit)
        ELSE IF query = <<>> THEN fail(ErrQuery)
        ELSE IF ntotal = 0 THEN fail(ErrIndexEmpty)
        ELSE IF k = 0 THEN fail(ErrKZero)
        ELSE IF k < 1 \/ Len(query) # index.d THEN fail(ErrSearch)
        ELSE LET acc == FilterNeighbours(Nearest(index, query, k), 1, idx_map.items,
                            similarity_threshold, [ids |-> <<>>, dists |-> <<>>])
             IN  [returned |-> TRUE, ids |-> acc.ids, dists |-> acc.dists, err |-> None]

\* workflow_steps.py run_semantic_fragment_selection (lines 109-127): what
\* the selection stage makes of the selector's result.
SelectionStatus(result) ==
    IF Truthy(result.err) THEN "failure"
    ELSE IF result.ids = <<>> THEN "success_no_fragments_found"
    ELSE "success"

\* The store files the selector can find: no file, a file json.load cannot
\* parse, or a dict of at most MaxFragments entries, each a record written
\* by the embedding update or an entry the builder skips.
SelectorStores ==
    {Absent, Corrupt} \cup
    {JsonDump(d) :
        d \in {e \in DistinctIdSeqs([id : FragIds,
                                     digest : {CurrentDigest(f) : f \in FragIds},
                                     vec : {Vector(f, 0) : f \in FragIds}
                                           \cup {MissingEmbedding, InvalidVector}],
                                    MaxFragments) :
                  \A i \in DOMAIN e :
                      /\ e[i].digest = CurrentDigest(e[i].id)
                      /\ e[i].vec \in {Vector(e[i].id, 0), MissingEmbedding, InvalidVector}}}

\* The manifest files the bootstrap can find: no file, or the first
\* 0..MaxFragments fragments of the project.
SelectorManifests ==
    {Absent} \cup {m \in Inventories : \A i \in DOMAIN m : IdRank(m[i]) = i}

\* The selector module has just been imported: nothing is cached.
SelectInit ==
    /\ UtilIdle
    /\ PipelineIdle
    /\ EmbedIdle
    /\ StepIdle
    /\ EMBEDDINGS_FILE \in SelectorStores
    /\ faiss_index_cache = NoneIndex
    /\ id_to_internal_index_map_cache = NoneMap
    /\ internal_index_to_id_map_cache = NoneMap
    /\ find_result = NoFindResult
    /\ sh = NoCall

\* The ids of the entries of a store file that hold a vector, in file order.
VectorIds(file) ==
    IF file \in {Absent, Corrupt} THEN <<>>
    ELSE LET data == JsonLoad(file)
             with == SelectSeq(data, LAMBDA e : e.vec[1] \in FragIds)
         IN  [i \in DOMAIN with |-> with[i].id]

\* The load reaches the bootstrap (line 73): nothing usable is cached, or a
\* reload is forced, and no store file exists.
ReachesBootstrap(cache_tested, force_reload, attempt_generation_if_missing) ==
    /\ ~(cache_tested /\ ~force_reload)
    /\ EMBEDDINGS_FILE = Absent
    /\ attempt_generation_if_missing

\* The call's record of a load.
LoadRecord(op, force, attempt, manifest, l) ==
    [NoCall EXCEPT !.op = op, !.force = force,
                   !.cached_before = ~faiss_index_cache.is_none,
                   !.store_existed = EMBEDDINGS_FILE # Absent,
                   !.manifest = manifest,
                   !.update_calls = l.updates, !.update_ok = l.update_ok,
                   !.gateway_calls = l.calls, !.load_ok = l.ok,
                   !.built = l.read /\ l.ok,
                   !.built_ids = IF l.read THEN VectorIds(l.file) ELSE sh.built_ids]

\* find_relevant_fragments(user_request, top_k, similarity_threshold,
\* force_index_reload), lines 196-274.  query is what the gateway returns
\* for the request; manifest, results and write are what the bootstrap
\* finds and meets if it runs.
FindRelevantFragments(query, top_k, similarity_threshold, force_index_reload, manifest, results, write) ==
    LET needs_load == faiss_index_cache.is_none \/ force_index_reload
        cache_tested == /\ ~faiss_index_cache.is_none
                        /\ ~id_to_internal_index_map_cache.is_none
                        /\ ~internal_index_to_id_map_cache.is_none
        boots == needs_load /\ ReachesBootstrap(cache_tested, force_index_reload, TRUE)
        u == IF boots /\ manifest # Absent
             THEN BootstrapUpdate(manifest, results, write) ELSE NoUpdate
        l == IF needs_load
             THEN LoadEmbeddingsAndBuildIndex(force_index_reload, TRUE, manifest, u)
             ELSE [ok |-> TRUE, index |-> faiss_index_cache,
                   id_map |-> id_to_internal_index_map_cache,
                   idx_map |-> internal_index_to_id_map_cache,
                   file |-> EMBEDDINGS_FILE, updates |-> 0, update_ok |-> FALSE,
                   calls |-> 0, read |-> FALSE]
    IN  /\ sh.op = "none"
        /\ ~boots => manifest = Absent
        /\ ~(boots /\ manifest \notin {Absent, <<>>}) =>
               results = [f \in FragIds |-> "ok"] /\ write = "ok"
        /\ \A f \in FragIds : (\A i \in DOMAIN manifest : manifest[i] # f) => results[f] = "ok"
        /\ (needs_load /\ ~l.ok) => query = <<>>
        /\ faiss_index_cache' = l.index
        /\ id_to_internal_index_map_cache' = l.id_map
        /\ internal_index_to_id_map_cache' = l.idx_map
        /\ EMBEDDINGS_FILE' = l.file
        /\ find_result' =
               IF needs_load /\ ~l.ok
               THEN [returned |-> TRUE, ids |-> <<>>, dists |-> <<>>, err |-> ErrLoad]
               ELSE SearchIndex(l.index, l.idx_map, query, top_k, similarity_threshold)
        /\ sh' = [LoadRecord("find", force_index_reload, TRUE, manifest, l)
                     EXCEPT !.top_k = top_k, !.threshold = similarity_threshold,
                            !.query = query]
        /\ UNCHANGED <<pipev, embv, stepv, utilv>>

\* _load_embeddings_and_build_index called on its own (a load, or a forced
\* reload), with or without the bootstrap.
LoadIndex(force_reload, attempt_generation_if_missing, manifest, results, write) ==
    LET cache_tested == /\ ~faiss_index_cache.is_none
                        /\ ~id_to_internal_index_map_cache.is_none
                        /\ ~internal_index_to_id_map_cache.is_none
        boots == ReachesBootstrap(cache_tested, force_reload, attempt_generation_if_missing)
        u == IF boots /\ manifest # Absent
             THEN BootstrapUpdate(manifest, results, write) ELSE NoUpdate
        l == LoadEmbeddingsAndBuildIndex(force_reload, attempt_generation_if_missing,
                                         manifest, u)
    IN  /\ sh.op = "none"
        /\ ~boots => manifest = Absent
        /\ ~(boots /\ manifest \notin {Absent, <<>>}) =>
               results = [f \in FragIds |-> "ok"] /\ write = "ok"
        /\ \A f \in FragIds : (\A i \in DOMAIN manifest : manifest[i] # f) => results[f] = "ok"
        /\ faiss_index_cache' = l.index
        /\ id_to_internal_index_map_cache' = l.id_map
        /\ internal_index_to_id_map_cache' = l.idx_map
        /\ EMBEDDINGS_FILE' = l.file
        /\ find_result' = NoFindResult
        /\ sh' = LoadRecord("load", force_reload, attempt_generation_if_missing, manifest, l)
        /\ UNCHANGED <<pipev, embv, stepv, utilv>>

\* The caller (workflow_steps.py run_semantic_fragment_selection, or a
\* test) has read the returned value; the selector is called again only
\* after that.
CallerTakesResult ==
    /\ sh.op # "none"
    /\ find_result' = NoFindResult
    /\ sh' = [NoCall EXCEPT !.built_ids = sh.built_ids]
    /\ UNCHANGED <<pipev, embv, stepv, utilv, EMBEDDINGS_FILE, faiss_index_cache,
                   id_to_internal_index_map_cache, internal_index_to_id_map_cache>>

\* Between two calls of the selector the embedding update (embedding/main.py)
\* rewrites or removes the store file, or the file is damaged.
StoreReplaced(new) ==
    /\ sh.op = "none"
    /\ new # EMBEDDINGS_FILE
    /\ EMBEDDINGS_FILE' = new
    /\ UNCHANGED <<pipev, embv, stepv, utilv, faiss_index_cache,
                   id_to_internal_index_map_cache, internal_index_to_id_map_cache,
                   find_result, sh>>

\* The bootstrap's inputs matter only to a call that reaches it.
FindBoots(force_index_reload) ==
    /\ faiss_index_cache.is_none \/ force_index_reload
    /\ ReachesBootstrap(/\ ~faiss_index_cache.is_none
                        /\ ~id_to_internal_index_map_cache.is_none
                        /\ ~internal_index_to_id_map_cache.is_none,
                        force_index_reload, TRUE)

LoadBoots(force_reload, attempt_generation_if_missing) ==
    ReachesBootstrap(/\ ~faiss_index_cache.is_none
                     /\ ~id_to_internal_index_map_cache.is_none
                     /\ ~internal_index_to_id_map_cache.is_none,
                     force_reload, attempt_generation_if_missing)

ManifestsFor(boots) == IF boots THEN SelectorManifests ELSE {Absent}

ResultsFor(manifest) ==
    IF manifest \in {Absent, <<>>} THEN {[f \in FragIds |-> "ok"]}
    ELSE {r \in [FragIds -> GatewayOutcomes] :
             \A f \in FragIds : (\A i \in DOMAIN manifest : manifest[i] # f) => r[f] = "ok"}

WritesFor(manifest) ==
    IF manifest \in {Absent, <<>>} THEN {"ok"} ELSE {"ok", "refused", "cut"}

SelectNext ==
    \/ \E force_index_reload \in BOOLEAN :
       \E manifest \in ManifestsFor(FindBoots(force_index_reload)) :
       \E results \in ResultsFor(manifest), write \in WritesFor(manifest) :
       \E query \in QueryEmbeddings, top_k \in TopKs,
          similarity_threshold \in Thresholds \cup {None} :
           FindRelevantFragments(query, top_k, similarity_threshold, force_index_reload,
                                 manifest, results, write)
    \/ \E force_reload \in BOOLEAN, attempt_generation_if_missing \in BOOLEAN :
       \E manifest \in ManifestsFor(LoadBoots(force_reload, attempt_generation_if_missing)) :
       \E results \in ResultsFor(manifest), write \in WritesFor(manifest) :
           LoadIndex(force_reload, attempt_generation_if_missing, manifest, results, write)
    \/ CallerTakesResult
    \/ \E new \in SelectorStores : StoreReplaced(new)

SelectSpec == SelectInit /\ [][SelectNext]_vars

\* ------------------------------------------- properties of the selector
\* The selector call has returned after reaching the search: the index is
\* loaded and the request has its embedding.
ReachedSearch ==
    /\ sh.op = "find"
    /\ sh.load_ok
    /\ ~faiss_index_cache.is_none
    /\ sh.query # <<>>

\* C21: find_relevant_fragments called on an index holding zero vectors, or
\* with top_k <= 0, returns an empty id list and an empty distance list with
\* the error component None, so that the selection stage reports "no
\* fragments found" and not a failure.
C21_EmptyIndexIsNoError ==
    ReachedSearch /\ (Len(faiss_index_cache.vectors) = 0 \/ sh.top_k <= 0) =>
        /\ find_result.ids = <<>>
        /\ find_result.dists = <<>>
        /\ find_result.err = None
        /\ SelectionStatus(find_result) = "success_no_fragments_found"

\* The ids the search returns for the last call's index, request and top_k
\* under threshold t.
ResultIds(t) ==
    LET r == SearchIndex(faiss_index_cache, internal_index_to_id_map_cache,
                         sh.query, sh.top_k, t)
    IN  {r.ids[i] : i \in DOMAIN r.ids}

\* C22: for a fixed index, request and top_k and any two thresholds t1 < t2,
\* the ids returned with t2 are a superset of those returned with t1, and
\* the ids returned with no threshold are a superset of both.
C22_ThresholdMonotone ==
    sh.op = "find" /\ sh.load_ok =>
        /\ find_result = SearchIndex(faiss_index_cache, internal_index_to_id_map_cache,
                                     sh.query, sh.top_k, sh.threshold)
        /\ \A t1, t2 \in Thresholds : t1[2] < t2[2] => ResultIds(t1) \subseteq ResultIds(t2)
        /\ \A t \in Thresholds : ResultIds(t) \subseteq ResultIds(None)

\* A call with the lower threshold returned one id where the higher
\* threshold gives two.
C22_Witness ==
    /\ sh.op = "find"
    /\ find_result.err = None
    /\ sh.threshold = <<"t", 1>>
    /\ Len(find_result.ids) = 1
    /\ Cardinality(ResultIds(<<"t", 4>>)) = 2

\* The stored vector of a fragment id of the cached index.
StoredVector(id) ==
    LET items == id_to_internal_index_map_cache.items
        i == CHOOSE j \in DOMAIN items : items[j][1] = id
    IN  faiss_index_cache.vectors[items[i][2] + 1]

\* C23: every result of find_relevant_fragments has id and distance lists of
\* equal length, at most min(top_k, index_size) (none when that is not
\* positive), the i-th distance is that of the i-th id, the distances are
\* in ascending order, and with a threshold no distance exceeds it.
C23_ResultShape ==
    sh.op = "find" =>
        LET ids    == find_result.ids
            dists  == find_result.dists
            ntotal == Len(faiss_index_cache.vectors)
            k      == IF sh.top_k < ntotal THEN sh.top_k ELSE ntotal
        IN  /\ Len(ids) = Len(dists)
            /\ Len(ids) <= (IF k < 0 THEN 0 ELSE k)
            /\ \A i \in DOMAIN ids : dists[i] = L2sq(StoredVector(ids[i]), sh.query)
            /\ \A i, j \in DOMAIN dists : i < j => dists[i] <= dists[j]
            /\ sh.threshold # None => \A i \in DOMAIN dists : dists[i] <= sh.threshold[2]

\* A call with a threshold returned two ids, nearest first, in the reverse
\* of the order in which the store lists them.
C23_Witness ==
    /\ sh.op = "find"
    /\ sh.threshold # None
    /\ Len(find_result.ids) = 2
    /\ find_result.dists[1] < find_result.dists[2]
    /\ find_result.ids[1] = sh.built_ids[2]
    /\ find_result.ids[2] = sh.built_ids[1]

\* C24: after any sequence of loads and forced reloads, successful or not,
\* the cache is either entirely unset, or the index size is the number of
\* valid vectors of the store it was built from and the two maps are
\* mutual inverses over the positions 0..size-1 in insertion order.
C24_CacheUnsetOrConsistent ==
    \/ /\ faiss_index_cache.is_none
       /\ id_to_internal_index_map_cache.is_none
       /\ internal_index_to_id_map_cache.is_none
    \/ LET n == Len(sh.built_ids)
       IN  /\ ~faiss_index_cache.is_none
           /\ ~id_to_internal_index_map_cache.is_none
           /\ ~internal_index_to_id_map_cache.is_none
           /\ Len(faiss_index_cache.vectors) = n
           /\ id_to_internal_index_map_cache.items =
                  [i \in 1..n |-> <<sh.built_ids[i], i - 1>>]
           /\ internal_index_to_id_map_cache.items =
                  [i \in 1..n |-> <<i - 1, sh.built_ids[i]>>]

\* A forced reload built a one-vector index from a store of two entries,
\* one of them malformed.
C24_Witness ==
    /\ sh.op = "load"
    /\ sh.force
    /\ sh.built
    /\ Len(faiss_index_cache.vectors) = 1
    /\ EMBEDDINGS_FILE \notin {Absent, Corrupt}
    /\ Len(JsonLoad(EMBEDDINGS_FILE)) = 2

\* C25: find_relevant_fragments with no cached index and no store file: if
\* the manifest exists (with any number of fragments, zero included) the
\* embedding update is triggered exactly once, the index is then built and
\* the selection proceeds; if the manifest is absent too, no embedding call
\* is made and the call returns an error with empty lists.  When the store
\* file exists or an index is cached the update is never triggered.
C25_BootstrapOnce ==
    sh.op = "find" =>
        /\ (~sh.cached_before /\ ~sh.store_existed /\ sh.manifest # Absent) =>
               /\ sh.update_calls = 1
               /\ sh.update_ok => /\ sh.built
                                  /\ find_result.err \notin {ErrLoad, ErrNotInit}
        /\ (~sh.cached_before /\ ~sh.store_existed /\ sh.manifest = Absent) =>
               /\ sh.update_calls = 0
               /\ sh.gateway_calls = 0
               /\ Truthy(find_result.err)
               /\ find_result.ids = <<>>
               /\ find_result.dists = <<>>
        /\ (sh.store_existed \/ sh.cached_before) => sh.update_calls = 0

\* ------------------ execution_loop.py: execute_single_agent_step, one call
\* A fragment id the planner names that the manifest does not hold.
UnknownFragId == "Z"
StepFragIds == FragIds \cup {UnknownFragId}

\* The manifest's entry of a fragment (context_builder.py lines 235-237,
\* 260): A is a whole-file templ source, B a line range of a Go file, C a
\* line range that the Go file of the workspace does not have.
ManifestFragment(f) ==
    CASE f = "A" -> [actual_source_path |-> "views/v.templ", is_templ_source |-> TRUE,
                     lines_ok |-> TRUE]
      [] f = "B" -> [actual_source_path |-> "pkg/x.go", is_templ_source |-> FALSE,
                     lines_ok |-> TRUE]
      [] f = "C" -> [actual_source_path |-> "pkg/x.go", is_templ_source |-> FALSE,
                     lines_ok |-> FALSE]

\* context_builder.py lines 227-292: the loop over target_fragment_ids from
\* id i on; targeted is files_potentially_modified_relative.  The loop breaks
\* with critical_error_occurred on an id the manifest lacks (line 231), a
\* source file missing in the workspace (253), a read that raises (265) or
\* returns nothing (269), and a line range extract_function_body rejects.
RECURSIVE AssembleTargets(_, _, _, _, _)
AssembleTargets(ids, i, ws, unreadable, targeted) ==
    IF i > Len(ids) THEN [ok |-> TRUE, files |-> targeted]
    ELSE IF ids[i] \notin FragIds THEN [ok |-> FALSE, files |-> targeted]
    ELSE LET info == ManifestFragment(ids[i])
             path == info.actual_source_path
         IN  IF ws[path] = "absent" THEN [ok |-> FALSE, files |-> targeted]
             ELSE IF path \in unreadable THEN [ok |-> FALSE, files |-> targeted]
             ELSE IF ~info.is_templ_source /\ ~info.lines_ok
             THEN [ok |-> FALSE, files |-> targeted]
             ELSE AssembleTargets(ids, i + 1, ws, unreadable, targeted \cup {path})

\* context_builder.py lines 295-318: the context fragments packaged for the
\* agent; an id the manifest lacks is logged and left out (line 300).
AssembleContextDefinitions(ids) == SelectSeq(ids, LAMBDA f : f \in FragIds)

\* assemble_expert_context: None (ok FALSE) or the context, and the files
\* targeted so far.
assemble_expert_context(step, ws, unreadable) ==
    LET t == AssembleTargets(step.target_fragment_ids, 1, ws, unreadable, {})
    IN  [ok |-> t.ok, files |-> t.files,
         context_definitions |->
             IF t.ok THEN AssembleContextDefinitions(step.context_fragment_ids) ELSE <<>>]

\* The path strings an agent puts in "path_to_modify": two files of the
\* project, the absolute path of a file of the target project, and a path
\* that leaves the workspace through '..'.
AbsoluteTargetPath == "/project/pkg/x.go"
DotDotPath == "../outside.go"
MutationPaths == Paths \cup {AbsoluteTargetPath, DotDotPath}

\* Line 131: current_project_state_dir / relative_path, as the tree the
\* resulting path lies in and the file's place in it.  pathlib drops the
\* left operand when the right one is absolute and keeps '..' segments.
ResolveInWorkspace(path) ==
    CASE path \in Paths            -> [tree |-> "workspace", rel |-> path]
      [] path = AbsoluteTargetPath -> [tree |-> "target", rel |-> "pkg/x.go"]
      [] path = DotDotPath         -> [tree |-> "elsewhere", rel |-> path]

\* The entries of "modified_fragments":
\*   nondict     : not a dict                                  (line 115)
\*   nopath      : "path_to_modify" missing, empty or no str   (lines 123-124)
\*   nullcontent : "new_content" None                          (line 125)
\*   write       : a valid mutation
MutationEntries ==
    { [kind |-> "nondict",     path |-> "pkg/x.go",      is_templ |-> FALSE],
      [kind |-> "nopath",      path |-> "pkg/x.go",      is_templ |-> FALSE],
      [kind |-> "nullcontent", path |-> "views/v.templ", is_templ |-> TRUE],
      [kind |-> "write",       path |-> "pkg/x.go",      is_templ |-> FALSE],
      [kind |-> "write",       path |-> "views/v.templ", is_templ |-> TRUE],
      [kind |-> "write",       path |-> AbsoluteTargetPath, is_templ |-> FALSE],
      [kind |-> "write",       path |-> DotDotPath,      is_templ |-> FALSE] }

\* What agent_instance.run does (lines 88-106): it raises, returns a
\* non-dict, returns a dict without "status", with another status, with
\* status success and a truthy non-list, or with status success and a list.
AgentResponses ==
    [kind : {"raises", "nondict", "no_status", "failure", "nonlist"},
     modified_fragments : {<<>>}]
    \cup [kind : {"success"}, modified_fragments : SeqsUpTo(MutationEntries, MaxFrags)]

\* Line 97: agent_response.get("status") == "success".
StatusIsSuccessUnlessFailure(response) == response.kind \notin {"failure"}

StatusIsSuccess(response) == response.kind \in {"success", "nonlist"}

\* Line 157: 'templ generate' is run.
RunsTemplGenerateAlways(any_templ) == TRUE

RunsTemplGenerate(any_templ) == any_templ

\* The plan steps: with or without an agent name, at most MaxStepIds target
\* ids and at most one context id.
PlanSteps ==
    [agent : {None, <<"agent", 1>>},
     target_fragment_ids : SeqsUpTo(StepFragIds, MaxStepIds),
     context_fragment_ids : SeqsUpTo(StepFragIds, 1)]

\* execute_single_agent_step is entered with a plan step and a workspace in
\* which each source file exists or not; the target project holds its
\* original files.
StepInit ==
    /\ UtilIdle
    /\ EmbedIdle
    /\ SelectorIdle
    /\ pc = "execute_step"
    /\ stop_after = "none"
    /\ max_retries = 0
    /\ target = [p \in Paths |-> "orig"]
    /\ workspace \in [Paths -> {"absent", "orig"}]
    /\ backups = [b \in BakNames |-> "absent"]
    /\ plan_steps_list = <<>>
    /\ build_attempt_number = 1
    /\ last_build_error_output_for_agents = None
    /\ overall_execution_successful = FALSE
    /\ all_files_modified_in_workspace_during_loop = {}
    /\ modified_files_in_current_attempt = {}
    /\ current_attempt_all_steps_succeeded_flawlessly = TRUE
    /\ step_idx = 1
    /\ loop_result = NoResult
    /\ execution_successful = FALSE
    /\ last_significant_error = None
    /\ apply_plan_file = NoFile
    /\ exit_code = -1
    /\ fin = FinIdle
    /\ h = [target0 |-> target]
    /\ spc = "resolve_agent"
    /\ step_data \in PlanSteps
    /\ agent_response = NoResponse
    /\ mod_idx = 0
    /\ modifications_applied_successfully_to_workspace = TRUE
    /\ applied_files_in_workspace_relative_paths = {}
    /\ any_templ_file_modified_in_this_step = FALSE
    /\ files_targeted_by_this_step = {}
    /\ step_return = NoStepReturn
    /\ elsewhere = {}
    /\ th = [NoStepHistory EXCEPT !.workspace0 = workspace, !.target0 = target]

\* What a step action leaves alone outside its own variables.
pipe_rest == <<pc, inputs, backups, plan_steps_list, loopv, mainv, exit_code, fin, h>>

\* return ok, files.
StepReturns(ok, returned_files, cause) ==
    /\ step_return' = [returned |-> TRUE, ok |-> ok, files |-> returned_files]
    /\ spc' = "returned"
    /\ th' = [th EXCEPT !.cause = cause]

\* Lines 47-66: the agent name is read, the class is loaded and
\* instantiated.  outcome: "ok", "not_loadable" (load_agent_class returns
\* None) or "init_raises".
ResolveAgent(outcome) ==
    /\ spc = "resolve_agent"
    /\ IF step_data.agent = None
       THEN outcome = "ok" /\ StepReturns(FALSE, {}, "no_agent")
       ELSE IF outcome # "ok"
       THEN StepReturns(FALSE, {}, outcome)
       ELSE spc' = "context" /\ UNCHANGED <<step_return, th>>
    /\ UNCHANGED <<embv, selv, utilv, pipe_rest, files, step_data, agent_response, mod_idx,
                   modifications_applied_successfully_to_workspace,
                   applied_files_in_workspace_relative_paths,
                   any_templ_file_modified_in_this_step, files_targeted_by_this_step,
                   elsewhere>>

\* Lines 68-83: the context is assembled; unreadable are the workspace files
\* whose read raises.
AssembleContext(unreadable) ==
    /\ spc = "context"
    /\ \A p \in unreadable : workspace[p] # "absent"
    /\ LET c == assemble_expert_context(step_data, workspace, unreadable)
       IN  /\ files_targeted_by_this_step' = c.files
           /\ IF c.ok
              THEN /\ spc' = "run_agent"
                   /\ th' = [th EXCEPT !.unreadable = unreadable]
                   /\ UNCHANGED step_return
              ELSE /\ step_return' = [returned |-> TRUE, ok |-> FALSE, files |-> c.files]
                   /\ spc' = "returned"
                   /\ th' = [th EXCEPT !.unreadable = unreadable, !.cause = "context"]
    /\ UNCHANGED <<embv, selv, utilv, pipe_rest, files, step_data, agent_response, mod_idx,
                   modifications_applied_successfully_to_workspace,
                   applied_files_in_workspace_relative_paths,
                   any_templ_file_modified_in_this_step, elsewhere>>

\* Lines 85-112 and 176-181: the agent is run and its response is sorted.
RunAgent(response) ==
    /\ spc = "run_agent"
    /\ agent_response' = response
    /\ LET ran == [th EXCEPT !.agent_runs = @ + 1]
           returns(ok, fs, cause) ==
               /\ step_return' = [returned |-> TRUE, ok |-> ok, files |-> fs]
               /\ spc' = "returned"
               /\ th' = [ran EXCEPT !.cause = cause]
               /\ UNCHANGED mod_idx
       IN  IF response.kind \in {"raises", "nondict"}
           THEN returns(FALSE, files_targeted_by_this_step, response.kind)
           ELSE IF ~StatusIsSuccess(response)
           THEN returns(FALSE, files_targeted_by_this_step, response.kind)
           ELSE IF response.kind = "nonlist"
           THEN returns(FALSE, files_targeted_by_this_step, "nonlist")
           ELSE IF response.modified_fragments = <<>>
           THEN returns(TRUE, {}, "no_modification")
           ELSE /\ mod_idx' = 1
                /\ spc' = "apply"
                /\ th' = ran
                /\ UNCHANGED step_return
    /\ modifications_applied_successfully_to_workspace' = TRUE
    /\ applied_files_in_workspace_relative_paths' = {}
    /\ any_templ_file_modified_in_this_step' = FALSE
    /\ UNCHANGED <<embv, selv, utilv, pipe_rest, files, step_data,
                   files_targeted_by_this_step, elsewhere>>

\* Lines 114-151: one iteration of the for loop over modified_fragments.
\* write_ok: mkdir and write_text succeed.  The content written is the
\* agent's text, passed through format_go_code for a Go file.
ApplyMutation(write_ok) ==
    /\ spc = "apply"
    /\ LET e    == agent_response.modified_fragments[mod_idx]
           last == mod_idx = Len(agent_response.modified_fragments)
           r    == ResolveInWorkspace(e.path)
       IN  /\ e.kind # "write" => write_ok
           /\ IF e.kind = "nondict"
              THEN /\ modifications_applied_successfully_to_workspace' = FALSE
                   /\ spc' = "after_loop"
                   /\ UNCHANGED <<mod_idx, files, elsewhere, th,
                                  applied_files_in_workspace_relative_paths,
                                  any_templ_file_modified_in_this_step>>
              ELSE IF e.kind \in {"nopath", "nullcontent"}
              THEN /\ mod_idx' = mod_idx + 1
                   /\ spc' = IF last THEN "after_loop" ELSE "apply"
                   /\ UNCHANGED <<modifications_applied_successfully_to_workspace, files,
                                  elsewhere, th, applied_files_in_workspace_relative_paths,
                                  any_templ_file_modified_in_this_step>>
              ELSE IF ~write_ok
              THEN /\ modifications_applied_successfully_to_workspace' = FALSE
                   /\ spc' = "after_loop"
                   /\ th' = [th EXCEPT !.write_failed = TRUE]
                   /\ UNCHANGED <<mod_idx, files, elsewhere,
                                  applied_files_in_workspace_relative_paths,
                                  any_templ_file_modified_in_this_step>>
              ELSE /\ workspace' = IF r.tree = "workspace"
                                   THEN [workspace EXCEPT ![r.rel] = "new"] ELSE workspace
                   /\ target' = IF r.tree = "target"
                                THEN [target EXCEPT ![r.rel] = "new"] ELSE target
                   /\ elsewhere' = IF r.tree = "elsewhere"
                                   THEN elsewhere \cup {r.rel} ELSE elsewhere
                   /\ applied_files_in_workspace_relative_paths' =
                          applied_files_in_workspace_relative_paths \cup {e.path}
                   /\ any_templ_file_modified_in_this_step' =
                          (any_templ_file_modified_in_this_step \/ e.is_templ)
                   /\ mod_idx' = mod_idx + 1
                   /\ spc' = IF last THEN "after_loop" ELSE "apply"
                   /\ th' = [th EXCEPT !.writes = Append(@, [path |-> e.path,
                                                              tree |-> r.tree,
                                                              is_templ |-> e.is_templ])]
                   /\ UNCHANGED <<modifications_applied_successfully_to_workspace, backups>>
    /\ UNCHANGED <<embv, selv, utilv, pipe_rest, step_data, agent_response,
                   files_targeted_by_this_step, step_return>>

\* Lines 153-174: after the loop.  templ_ok is the result of the
\* regenerate command (run_build_command with TEMPL_GENERATE_COMMAND).
AfterMutations(templ_ok) ==
    /\ spc = "after_loop"
    /\ IF ~modifications_applied_successfully_to_workspace
       THEN /\ templ_ok
            /\ StepReturns(FALSE,
                   FilesOnWriteFailure(applied_files_in_workspace_relative_paths),
                   "apply_failed")
       ELSE IF RunsTemplGenerate(any_templ_file_modified_in_this_step)
       THEN /\ step_return' = [returned |-> TRUE, ok |-> templ_ok,
                               files |-> applied_files_in_workspace_relative_paths]
            /\ spc' = "returned"
            /\ th' = [th EXCEPT !.cause = IF templ_ok THEN "applied" ELSE "templ_failed",
                                !.templ_runs = @ + 1,
                                !.templ_after = Len(th.writes),
                                !.templ_ok = templ_ok]
       ELSE /\ templ_ok
            /\ StepReturns(TRUE, applied_files_in_workspace_relative_paths, "applied")
    /\ UNCHANGED <<embv, selv, utilv, pipe_rest, files, step_data, agent_response, mod_idx,
                   modifications_applied_successfully_to_workspace,
                   applied_files_in_workspace_relative_paths,
                   any_templ_file_modified_in_this_step, files_targeted_by_this_step,
                   elsewhere>>

StepNext ==
    \/ \E outcome \in {"ok", "not_loadable", "init_raises"} : ResolveAgent(outcome)
    \/ \E unreadable \in SUBSET Paths : AssembleContext(unreadable)
    \/ \E response \in AgentResponses : RunAgent(response)
    \/ \E write_ok \in BOOLEAN : ApplyMutation(write_ok)
    \/ \E templ_ok \in BOOLEAN : AfterMutations(templ_ok)

StepSpec == StepInit /\ [][StepNext]_vars

\* ------------------------------------------------ properties of one step
\* The step's context cannot be assembled as the plan asks: a target or
\* context fragment id is not in the manifest, a target's source file is
\* absent from the workspace or cannot be read, or a line-ranged target has
\* a range the file does not have.
TargetIdMissing ==
    \E i \in DOMAIN step_data.target_fragment_ids :
        step_data.target_fragment_ids[i] \notin FragIds

ContextIdMissing ==
    \E i \in DOMAIN step_data.context_fragment_ids :
        step_data.context_fragment_ids[i] \notin FragIds

TargetSourceUnusable ==
    \E i \in DOMAIN step_data.target_fragment_ids :
        LET f == step_data.target_fragment_ids[i]
        IN  /\ f \in FragIds
            /\ \/ th.workspace0[ManifestFragment(f).actual_source_path] = "absent"
               \/ ManifestFragment(f).actual_source_path \in th.unreadable
               \/ ~ManifestFragment(f).is_templ_source /\ ~ManifestFragment(f).lines_ok

NothingWritten ==
    /\ th.writes = <<>>
    /\ workspace = th.workspace0
    /\ target = th.target0
    /\ elsewhere = {}

\* C26: a step whose target or context fragment id is missing from the
\* manifest, whose target source file is absent or unreadable, or whose
\* line range is invalid, never has its agent invoked and never writes, and
\* when it has returned it has returned failure.
C26_UnassembledContextFails ==
    (TargetIdMissing \/ ContextIdMissing \/ TargetSourceUnusable) =>
        /\ th.agent_runs = 0
        /\ NothingWritten
        /\ spc = "returned" => ~step_return.ok

\* The agent could not be used: the step names none, the class cannot be
\* loaded or instantiated, run raised, returned something that is no
\* mapping, or a mapping whose status is missing or not success.
AgentUnusable ==
    \/ spc # "resolve_agent" /\ step_data.agent = None
    \/ th.cause \in {"not_loadable", "init_raises"}
    \/ agent_response.kind \in {"raises", "nondict", "no_status", "failure"}

\* C27: when the agent cannot be used, execute_single_agent_step has
\* returned (nothing was raised to the caller), it has returned failure, and
\* no file has been written.
C27_UnusableAgentFailsStep ==
    AgentUnusable =>
        /\ spc = "returned"
        /\ step_return.returned
        /\ ~step_return.ok
        /\ NothingWritten

\* The agent ran and answered with a mapping that has no status.
C27_Witness ==
    /\ spc = "returned"
    /\ th.agent_runs = 1
    /\ agent_response.kind = "no_status"
    /\ ~step_return.ok

\* The entries of the agent's answer, the valid ones among them and their
\* paths, and the paths written so far.
Mutations == agent_response.modified_fragments
MalformedEntry(e) == e.kind \in {"nondict", "nopath", "nullcontent"}
ValidPaths == {Mutations[i].path : i \in {j \in DOMAIN Mutations : Mutations[j].kind = "write"}}
WrittenPaths == {th.writes[i].path : i \in DOMAIN th.writes}
TemplWritten == \E i \in DOMAIN th.writes : th.writes[i].is_templ

\* C28: when the agent's answer holds malformed entries, no write fails and
\* the regenerate command succeeds, the step has written every valid entry
\* and returns success with exactly the paths of the valid entries.
C28_MalformedEntriesSkipped ==
    /\ spc = "returned"
    /\ agent_response.kind = "success"
    /\ \E i \in DOMAIN Mutations : MalformedEntry(Mutations[i])
    /\ ~th.write_failed
    /\ th.templ_ok
    => /\ step_return.ok
       /\ WrittenPaths = ValidPaths
       /\ step_return.files = ValidPaths

\* What C29 says of the regenerate command besides when it runs: at most
\* once, after every mutation written in the step, and its failure is a
\* step failure that still returns the written paths.
TemplGenerateOnceAtEnd ==
    /\ th.templ_runs <= 1
    /\ th.templ_runs = 1 => th.templ_after = Len(th.writes)
    /\ th.templ_runs = 1 /\ ~th.templ_ok =>
           ~step_return.ok /\ step_return.files = WrittenPaths

C30_WritesStayInWorkspace ==
    /\ \A i \in DOMAIN th.writes : th.writes[i].tree = "workspace"
    /\ target = th.target0
    /\ elsewhere = {}

\* ================================= properties of the run, continued
\* C38: for a non-empty plan and max_retries >= 1, a failure returned by
\* run_execution_loop carries a non-empty error: the output of the most
\* recent failed build if a build failed in the run, and otherwise the
\* failure message of the first step that failed.
C38_FailureCarriesError ==
    /\ loop_result.returned
    /\ ~loop_result.ok
    /\ plan_steps_list # <<>>
    /\ max_retries >= 1
    => /\ Truthy(loop_result.err)
       /\ loop_result.err = IF h.last_failed_build # None THEN h.last_failed_build
                            ELSE h.first_failed_step

\* A step failed first, a build failed later, and a step failed in the last
\* attempt: the failure returned carries the build's output.
C38_Witness ==
    /\ loop_result.returned
    /\ ~loop_result.ok
    /\ h.attempts >= 3
    /\ h.first_failed_step # None
    /\ h.last_failed_build # None
    /\ h.cur_end.kind = "step_failed"
    /\ h.prev_end.kind = "build_failed"
    /\ loop_result.err = h.last_failed_build

\* C39: the workspace is prepared once, before the first attempt, and no
\* attempt resets it: from the preparation to the end of the run a file
\* written by a step of any attempt, failed or not, holds what the steps
\* wrote, and every other file is as the preparation copied it.
C39_WorkspaceKeptAcrossAttempts ==
    /\ h.preps <= 1
    /\ (h.attempts >= 1 \/ pc \in LoopPcs) => h.preps = 1 /\ h.prep_ok
    /\ h.prep_ok =>
           \A p \in Paths :
               workspace[p] = IF p \in h.written_union THEN "new" ELSE h.target0[p]

\* A step of a failed first attempt wrote a file that no step of the second
\* attempt wrote; the second attempt has run a step.
C39_Witness ==
    /\ h.attempts = 2
    /\ h.prev_end.kind \in {"step_failed", "build_failed"}
    /\ h.att_steps # <<>>
    /\ modified_files_in_current_attempt = {}
    /\ \E p \in h.written_union : workspace[p] = "new" /\ h.target0[p] = "orig"

\* C31: after a preparation that returned a path the workspace holds the
\* copy of the target tree and no file of a previous run's workspace; after
\* one that failed the run has exited with code 1 without an attempt, a
\* step, a build or a finalization, leaving the target as it was.
C31_WorkspacePreparedOrRunStops ==
    /\ h.prep_ok => \A p \in Paths : workspace[p] # "stale"
    /\ h.prep_ok /\ h.written_union = {} => workspace = h.target0
    /\ h.preps >= 1 /\ ~h.prep_ok =>
           /\ pc = "exit" /\ exit_code = 1
           /\ h.attempts = 0 /\ h.builds = 0 /\ h.fin_calls = 0
           /\ \A i \in DOMAIN h.step_runs : h.step_runs[i] = 0
           /\ ~loop_result.returned
           /\ apply_plan_file = NoFile
           /\ target = h.target0

\* The copy failed and the cleanup could not remove the part already
\* copied: the run has exited although the workspace directory holds files.
C31_Witness ==
    /\ h.preps = 1
    /\ ~h.prep_ok
    /\ pc = "exit"
    /\ \E p \in Paths : workspace[p] = "orig"
    /\ \E p \in Paths : workspace[p] = "absent" /\ target[p] = "orig"

\* The stages of modifier_orchestrator_main, numbered in the order of the
\* code: 1 inventory load, 2 selection, 3 planning, 4 workspace preparation,
\* 5 execution loop, 6 diff and apply-plan generation (with the decision that
\* follows it), 7 finalization, 8 the exit.
StageOf(at) ==
    CASE at = "load_manifest" -> 1
      [] at = "selection" -> 2
      [] at = "planning" -> 3
      [] at = "workspace_prep" -> 4
      [] at \in LoopPcs -> 5
      [] at \in {"after_loop", "finalize_decision"} -> 6
      [] at \in {"finalize", "finalize_copy", "finalize_end", "finalize_return"} -> 7
      [] at \in {"final_exit", "exit"} -> 8

\* The last stage that runs under --stop-after; 'execution' is phase 4b and
\* 4c of main.py, the loop and the generation of the diff and apply-plan.
LastStage(choice) ==
    CASE choice = "optimization" -> 2
      [] choice = "planning" -> 3
      [] choice = "workspace_prep" -> 4
      [] choice = "execution" -> 6
      [] choice = "none" -> 7

C40_State ==
    /\ h.stage_failed => pc \in {"finalize_decision", "final_exit", "exit"}
    /\ apply_plan_file # NoFile => loop_result.returned /\ loop_result.ok
    /\ StageOf(pc) = 7 =>
           loop_result.returned /\ loop_result.ok /\ apply_plan_file # NoFile
    /\ h.preps <= 1 /\ h.fin_calls <= 1
    /\ pc # "exit" => StageOf(pc) <= LastStage(stop_after) \/ pc = "final_exit"
    /\ pc = "final_exit" => stop_after = "none"

\* C40: the stages run in the order inventory load, selection, planning,
\* workspace preparation, execution loop, diff/apply-plan generation,
\* finalization; a stage is entered only from the stage before it and never
\* again, only while no stage has failed, and no stage after the one named
\* by --stop-after is entered.
C40_StagesInOrder ==
    /\ [](C40_State)
    /\ [][ /\ StageOf(pc') >= StageOf(pc)
           /\ StageOf(pc') > StageOf(pc) => StageOf(pc') \in {StageOf(pc) + 1, 8} ]_vars

\* --stop-after execution: the run has exited with an apply-plan generated
\* and without finalization.
C40_Witness ==
    /\ pc = "exit"
    /\ stop_after = "execution"
    /\ exit_code = 0
    /\ apply_plan_file # NoFile
    /\ h.fin_calls = 0
    /\ h.preps = 1

\* --------------------------------- properties of finalization, continued
\* finalize_execution has returned without entering the backup.
ReturnedBeforeBackup == fin.result # "none" /\ fin.paths = <<>> /\ ~h.mkdir_failed

\* C33: finalize_execution with an empty path list returns success; with a
\* missing or unparsable plan file, or a plan whose path list is absent or
\* not a list, it returns failure; in all these cases no backup is made and
\* no target file is written.
C33_EmptyPlanSucceedsCorruptPlanFails ==
    /\ ReturnedBeforeBackup /\ apply_plan_file = <<>> /\ ~h.plan_unreadable
           => fin.result = "success"
    /\ fin.result # "none"
       /\ (h.plan_unreadable \/ apply_plan_file = NoFile \/ apply_plan_file \in CorruptPlans)
           => fin.result = "failure"
    /\ ReturnedBeforeBackup
           => target = h.target0 /\ \A b \in BakNames : backups[b] = "absent"

\* The same I/O operations failed in the second application as in the first.
SameFailures ==
    /\ h.plan_unreadable = h.first.plan_unreadable
    /\ h.mkdir_failed = h.first.mkdir_failed
    /\ h.copy_failed = h.first.copy_failed

Generated(f) == ~HasMatchingRecord(f) /\ task_result[f] = "ok"

\* The store that follows from each fragment's own prior record and own
\* call outcome: the reused records in manifest order, then the generated
\* ones in manifest order.
ExpectedStore ==
    LET reused == SelectSeq(current_fragments, HasMatchingRecord)
        fresh  == SelectSeq(current_fragments, Generated)
    IN  [i \in DOMAIN reused |-> DictGet(PriorStore, reused[i])]
        \o [i \in DOMAIN fresh |->
               [id |-> fresh[i], digest |-> CurrentDigest(fresh[i]),
                vec |-> Vector(fresh[i], eh.run)]]

\* C36: the store an update builds and writes is determined, records and key
\* order, by each fragment's own prior record and the outcome of its own
\* embedding call; it is the same for every order in which the calls start
\* and complete, and a failed call leaves every other fragment's record as
\* it is without the failure.
C36_StoreIndependentOfCallOrder ==
    /\ epc \in {"save", "returned"} /\ eh.manifest_read /\ current_fragments # <<>>
           => updated_embeddings_data = ExpectedStore
    /\ epc = "returned" /\ update_result = "true" /\ current_fragments # <<>>
           => store_file = JsonDump(ExpectedStore)

\* Two calls, completed in the reverse of the order they were started in,
\* the first of them without a vector: the store to save has the record of
\* the second only.
C36_Witness ==
    /\ epc = "save"
    /\ Len(embedding_tasks) = 2
    /\ eh.completed = <<embedding_tasks[2], embedding_tasks[1]>>
    /\ task_result[embedding_tasks[1]] = "none"
    /\ task_result[embedding_tasks[2]] = "ok"
    /\ DictIds(updated_embeddings_data) = {embedding_tasks[2]}

\* C37: an update that finds no prior store, or one that cannot be parsed or
\* does not hold a mapping of records, goes on as with an empty prior store:
\* no exception leaves it and every fragment of the manifest is scheduled
\* for embedding.
C37_UnusablePriorStoreTolerated ==
    /\ epc \in {"gather", "save", "returned"}
    /\ eh.manifest_read
    /\ current_fragments # <<>>
    /\ eh.store0 \in UnusableStores
    => /\ update_result # "raised"
       /\ old_embeddings_data = <<>>
       /\ TaskIds = InventoryIds

\* ============ workflow_steps.py: generate_apply_plan_and_diff_report ========
\* The number of file reports of the steps of a run.
MaxTouches == 3

\* The elements of a sequence.
Range(q) == {q[i] : i \in DOMAIN q}

\* list(a_set): the elements once each, in an order Python does not specify.
Orderings(S) ==
    {q \in SeqsUpTo(S, Cardinality(S)) : Len(q) = Cardinality(S) /\ Range(q) = S}

RECURSIVE Insert(_, _)
Insert(x, q) ==
    IF q = <<>> THEN <<x>>
    ELSE IF StrLess(x, Head(q)) THEN <<x>> \o q
    ELSE <<Head(q)>> \o Insert(x, Tail(q))

RECURSIVE InsertionSort(_)
InsertionSort(q) == IF q = <<>> THEN <<>> ELSE Insert(Head(q), InsertionSort(Tail(q)))

\* sorted(list(relative_paths_of_modified_files)) (lines 290 and 362).
sorted_omitted(listing) == listing

sorted(listing) == InsertionSort(listing)

\* Lines 291-321: the section of one path.  A modified file that is not in
\* the workspace gets an error line, a file that is not in the target
\* project the line of a new file, the others a unified diff or the line
\* saying that there is no difference.
Section(rel_path_str) ==
    [path |-> rel_path_str,
     kind |-> IF ws_dir[rel_path_str] = NoContent THEN "missing_in_workspace"
              ELSE IF project_dir[rel_path_str] = NoContent THEN "new_file"
              ELSE IF ws_dir[rel_path_str] = project_dir[rel_path_str] THEN "no_difference"
              ELSE "diff"]

\* Lines 280-323; for an empty set the text is one line saying so.
generate_diff_report_text(listing) ==
    IF listing = <<>> THEN << [path |-> <<>>, kind |-> "no_files"] >>
    ELSE LET paths == sorted(listing) IN [i \in DOMAIN paths |-> Section(paths[i])]

\* The trees of files: the target project has files with their original
\* text; the workspace copy has files unchanged, rewritten, new or missing.
ProjectTrees ==
    {[p \in RelPaths |-> IF p \in S THEN Orig(p) ELSE NoContent] : S \in SUBSET RelPaths}

WorkspaceTrees ==
    {[p \in RelPaths |-> IF p \in N THEN New(p) ELSE IF p \in S THEN Orig(p) ELSE NoContent] :
        S \in SUBSET RelPaths, N \in SUBSET RelPaths}

\* generate_apply_plan_and_diff_report is called with the set the run has
\* accumulated from the reports of its steps, in any order and with repeats.
ReportInit ==
    /\ PipelineIdle
    /\ EmbedIdle
    /\ SelectorIdle
    /\ StepIdle
    /\ upc = "generate"
    /\ project_dir \in ProjectTrees
    /\ ws_dir \in WorkspaceTrees
    /\ touch_order \in SeqsUpTo(RelPaths, MaxTouches)
    /\ relative_paths_of_modified_files = Range(touch_order)
    /\ files_to_apply = NotWritten
    /\ diff_report_text = NotWrittenReport
    /\ relative_file_paths = <<>>
    /\ bidx = 0
    /\ backup_dir = [b \in BakFileNames |-> NoContent]
    /\ uh = [project0 |-> project_dir, io_failed |-> FALSE]

\* Lines 326-377.  for_report, for_plan: the orders in which the two
\* list(set) calls give the paths; report_ok, plan_ok: whether the report and
\* the plan file could be written (lines 347-352 and 366-375).
generate_apply_plan_and_diff_report(for_report, for_plan, report_ok, plan_ok) ==
    /\ upc = "generate"
    /\ diff_report_text' = IF report_ok THEN generate_diff_report_text(for_report)
                           ELSE NotWrittenReport
    /\ files_to_apply' = IF plan_ok THEN sorted(for_plan) ELSE NotWritten
    /\ upc' = "returned"
    /\ UNCHANGED <<pipev, embv, selv, stepv, project_dir, ws_dir, touch_order,
                   relative_paths_of_modified_files, relative_file_paths, bidx,
                   backup_dir, uh>>

ReportNext ==
    \E for_report \in Orderings(relative_paths_of_modified_files),
       for_plan \in Orderings(relative_paths_of_modified_files),
       report_ok \in BOOLEAN, plan_ok \in BOOLEAN :
        generate_apply_plan_and_diff_report(for_report, for_plan, report_ok, plan_ok)

ReportSpec == ReportInit /\ [][ReportNext]_vars

\* ================== utils.py: backup_files and restore_from_backup ==========
\* backup_files is called with the existing files of the plan, in the order
\* list(files_to_backup) gives (workflow_steps.py lines 417-422); the same
\* list is later given to restore_from_backup.
BackupInit ==
    /\ PipelineIdle
    /\ EmbedIdle
    /\ SelectorIdle
    /\ StepIdle
    /\ upc = "backup"
    /\ project_dir \in ProjectTrees
    /\ ws_dir = [p \in RelPaths |-> New(p)]
    /\ touch_order = <<>>
    /\ relative_paths_of_modified_files = {}
    /\ files_to_apply = NotWritten
    /\ diff_report_text = NotWrittenReport
    /\ \E S \in SUBSET {p \in RelPaths : project_dir[p] # NoContent} :
           S # {} /\ relative_file_paths \in Orderings(S)
    /\ bidx = 1
    /\ backup_dir = [b \in BakFileNames |-> NoContent]
    /\ uh = [project0 |-> project_dir, io_failed |-> FALSE]

\* utils.py lines 482-511: one iteration of the loop of backup_files; copy_ok:
\* shutil.copy2 succeeded (its error is logged and the loop goes on).
BackupFile(copy_ok) ==
    /\ upc = "backup"
    /\ LET rel_path == relative_file_paths[bidx]
           bak_file == bak_name(rel_path)
       IN  backup_dir' = IF project_dir[rel_path] # NoContent /\ copy_ok
                         THEN [backup_dir EXCEPT ![bak_file] = project_dir[rel_path]]
                         ELSE backup_dir
    /\ bidx' = IF bidx = Len(relative_file_paths) THEN 0 ELSE bidx + 1
    /\ upc' = IF bidx = Len(relative_file_paths) THEN "apply" ELSE "backup"
    /\ uh' = [uh EXCEPT !.io_failed = @ \/ ~copy_ok]
    /\ UNCHANGED <<pipev, embv, selv, stepv, project_dir, ws_dir, touch_order,
                   relative_paths_of_modified_files, files_to_apply, diff_report_text,
                   relative_file_paths>>

\* workflow_steps.py lines 435-452: the planned files are copied from the
\* workspace over the project.
ApplyChanges ==
    /\ upc = "apply"
    /\ project_dir' = [p \in RelPaths |->
                          IF p \in Range(relative_file_paths) THEN ws_dir[p]
                          ELSE project_dir[p]]
    /\ upc' = "restore"
    /\ bidx' = 1
    /\ UNCHANGED <<pipev, embv, selv, stepv, ws_dir, touch_order,
                   relative_paths_of_modified_files, files_to_apply, diff_report_text,
                   relative_file_paths, backup_dir, uh>>

\* utils.py lines 645-679: one iteration of the loop of restore_from_backup;
\* a path whose backup file does not exist is left as it is.
RestoreFile(copy_ok) ==
    /\ upc = "restore"
    /\ LET rel_path == relative_file_paths[bidx]
           bak_file == bak_name(rel_path)
       IN  project_dir' = IF backup_dir[bak_file] # NoContent /\ copy_ok
                          THEN [project_dir EXCEPT ![rel_path] = backup_dir[bak_file]]
                          ELSE project_dir
    /\ bidx' = IF bidx = Len(relative_file_paths) THEN 0 ELSE bidx + 1
    /\ upc' = IF bidx = Len(relative_file_paths) THEN "done" ELSE "restore"
    /\ uh' = [uh EXCEPT !.io_failed = @ \/ ~copy_ok]
    /\ UNCHANGED <<pipev, embv, selv, stepv, ws_dir, touch_order,
                   relative_paths_of_modified_files, files_to_apply, diff_report_text,
                   relative_file_paths, backup_dir>>

BackupNext ==
    \/ \E copy_ok \in BOOLEAN : BackupFile(copy_ok)
    \/ ApplyChanges
    \/ \E copy_ok \in BOOLEAN : RestoreFile(copy_ok)

BackupSpec == BackupInit /\ [][BackupNext]_vars

\* ----------------------------- properties of the report and the backup
\* The sequence lists its paths in strictly ascending order.
Ascending(q) == \A i, j \in DOMAIN q : i < j => StrLess(q[i], q[j])

\* C32: the path list of the apply-plan is the set of modified files in
\* ascending order, every path once, whatever the order in which the files
\* were touched and in which the set gives them; the diff report has one
\* section for each of these paths, in the same order, also for a path
\* missing from the workspace (an error section) and for a path missing from
\* the original tree (a new-file section).
C32_PlanAndReportSorted ==
    upc = "returned" =>
        LET S == relative_paths_of_modified_files
        IN  /\ files_to_apply # NotWritten =>
                  /\ Range(files_to_apply) = S
                  /\ Len(files_to_apply) = Cardinality(S)
                  /\ Ascending(files_to_apply)
            /\ diff_report_text # NotWrittenReport /\ S # {} =>
                  /\ Len(diff_report_text) = Cardinality(S)
                  /\ Ascending([i \in DOMAIN diff_report_text |-> diff_report_text[i].path])
                  /\ \A i \in DOMAIN diff_report_text :
                        LET sec == diff_report_text[i]
                        IN  /\ sec.path \in S
                            /\ (sec.kind = "missing_in_workspace" <=> ws_dir[sec.path] = NoContent)
                            /\ (sec.kind = "new_file" <=>
                                   ws_dir[sec.path] # NoContent /\ project_dir[sec.path] = NoContent)
                            /\ sec.kind \in {"missing_in_workspace", "new_file", "diff",
                                             "no_difference"}
            /\ diff_report_text # NotWrittenReport /\ files_to_apply # NotWritten /\ S # {} =>
                  files_to_apply = [i \in DOMAIN diff_report_text |-> diff_report_text[i].path]

\* Three files touched in descending order, one of them twice: one is
\* missing from the workspace, one is new, one was rewritten.
C32_Witness ==
    /\ upc = "returned"
    /\ touch_order = << <<"a", "_", "b">>, <<"a", "/", "b">>, <<"a", "_", "b">> >>
    /\ files_to_apply = << <<"a", "/", "b">>, <<"a", "_", "b">> >>
    /\ Len(diff_report_text) = 2
    /\ diff_report_text[1].kind = "missing_in_workspace"
    /\ diff_report_text[2].kind = "new_file"

\* C35: two distinct relative paths of a backup have distinct backup files,
\* and after backup_files, the application and restore_from_backup, with no
\* copy failing, every backed-up file has the content it had before.
C35_BackupMirrorsPaths ==
    /\ upc \in {"apply", "restore", "done"} =>
          \A i, j \in DOMAIN relative_file_paths :
              i # j => bak_name(relative_file_paths[i]) # bak_name(relative_file_paths[j])
    /\ upc = "done" /\ ~uh.io_failed =>
          \A p \in Range(relative_file_paths) : project_dir[p] = uh.project0[p]
====
